---------------------------- MODULE Spec2Model ----------------------------
(***************************************************************************)
(* A model of the Lunabotics 2D simulation: the tkinter simulation         *)
(* (shapes.py, environment.py, main.py) and the headless RL environment    *)
(* (python_training/env/physics.py, lunabotics_env.py).                    *)
(*                                                                         *)
(* Numbers.  The program computes in floating point; the model computes in *)
(* integers:                                                               *)
(*   - a length of the tkinter simulation is a whole number of 5 mm units  *)
(*     (1 m = 200 units) and a length of the RL environment a whole number *)
(*     of 0.5 mm units (1 m = 2000 units): every dimension the sources fix *)
(*     (arena, zones, rover, radii ranges) is a whole number of them;      *)
(*   - a velocity of the RL environment is the displacement of one step    *)
(*     (dt = 1/60 s), and its angles are whole millidegrees;               *)
(*   - an angle of shapes.py (degrees) is a whole number of angle units,   *)
(*     AngPerDeg to the degree, chosen so that the torque increments and   *)
(*     MaxUpdates successive drags are exact;                              *)
(*   - cos and sin are fixed-point values scaled by TrigScale, exact at    *)
(*     the multiples of 90 degrees;                                        *)
(*   - a comparison of distances is a comparison of their squares.         *)
(***************************************************************************)
EXTENDS Integers, Sequences, FiniteSets, TLC

(***************************************************************************)
(* State.  Each group of variables is one part of the program; a           *)
(* specification below drives one part and leaves the others idle.         *)
(***************************************************************************)
VARIABLES
    \* a collision query between two shapes (shapes.py collides)
    qA,             \* the receiver
    qB,             \* the argument
    qDone,          \* whether the two calls below have been made
    qAB,            \* what qA.collides(qB) returned
    qBA             \* what qB.collides(qA) returned

geomVars == <<qA, qB, qDone, qAB, qBA>>

VARIABLES
    \* a zone query of the RL environment (LunaboticsEnv._get_zone)
    zPoint,         \* the position asked about
    zDone,          \* whether the call has been made
    zResult         \* the Zone it returned

zoneVars == <<zPoint, zDone, zResult>>

VARIABLES
    \* one Rover object of shapes.py and what has been done to it
    rover,          \* the PhysicsRectangle fields
    updates,        \* update() calls on it so far
    torqueCalls,    \* torque_right()/torque_left() calls on it so far
    applied         \* history: the torques applied on each side, and whether
                    \* one was applied after an update

roverVars == <<rover, updates, torqueCalls, applied>>

VARIABLES
    \* the interactive simulation (environment.py, main.py) around the rover
    driver,         \* which of the two programs runs: "environment" or "main"
    obstacles,      \* the obstacle list, in the order of placement
    toPlace,        \* reset_arena: the constructors still to be placed
    arena,          \* history: the reset_arena calls made so far
    made            \* history: for each obstacle of the list, the
                    \* reset_arena call that constructed it

simVars == <<driver, obstacles, toPlace, arena, made>>

VARIABLES
    \* the RL environment (LunaboticsEnv and its PhysicsEngine)
    body,           \* self.rover, a RigidBody
    rocks,          \* self.rocks, in the order of creation
    craters,        \* self.craters
    orbs,           \* self.orbs; each orb carries its physics circle
    orbs_held,      \* self.orbs_held: the ids of the held orbs, in order
    orbs_deposited, \* self.orbs_deposited
    current_zone,   \* self.current_zone
    steps,          \* self.steps
    previous_state, \* self.previous_state
    terminated,     \* what the last step() returned as terminated
    truncated,      \* what the last step() returned as truncated
    trace           \* history of the last step(): the body between wall and
                    \* circle resolution and what was seen there

envVars == <<body, rocks, craters, orbs, orbs_held, orbs_deposited, current_zone,
             steps, previous_state, terminated, truncated, trace>>

VARIABLES
    \* a collision query of the physics engine
    \* (PhysicsEngine._check_rect_circle_collision)
    pRect,          \* the RigidBody
    pCircle,        \* the Circle
    pDone,          \* whether the call has been made
    pHit            \* what it returned

physVars == <<pRect, pCircle, pDone, pHit>>

VARIABLES
    \* one LunaboticsEnv(env_config, reward_config, reward_stage) call and the
    \* reset() and step() calls on its result
    cEnvConfig,     \* env_config: whether a dict is given, and its keys
    cRewardConfig,  \* reward_config: "None" or "dict"
    cRewardStage,   \* reward_stage
    cPhase,         \* the last call made: "new" (none), "__init__", "reset", "step"
    cRaised         \* the exception that call raised, or "none"

ctorVars == <<cEnvConfig, cRewardConfig, cRewardStage, cPhase, cRaised>>

VARIABLES
    \* one _get_observation() call of the RL environment
    oWorld,         \* the environment observed: rover, rocks, craters, orbs,
                    \* held orbs and zone
    oDone,          \* whether the call has been made
    oObs            \* the list it returned

obsVars == <<oWorld, oDone, oObs>>

VARIABLES
    \* one PhysicsRectangle of shapes.py driven through its methods
    theRect,        \* the rectangle
    rectOps,        \* the calls made on it so far
    rectLast        \* history: the last call and the rectangle it was made on

rectVars == <<theRect, rectOps, rectLast>>

VARIABLES
    \* one RigidBody of physics.py driven through apply_torque and update
    bBody,          \* the body
    bRate,          \* 1 / dt of the calls, in steps per second
    bOps,           \* the calls made on it so far
    bLast           \* history: the last call and the body it was made on

bodyVars == <<bBody, bRate, bOps, bLast>>

VARIABLES
    \* one call of a collision test of shapes.py or of Vec2.normalize
    dCall,          \* the function called and its arguments
    dDone,          \* whether the call has been made
    dOutcome        \* what it raised, and what it returned

degenVars == <<dCall, dDone, dOutcome>>

VARIABLES
    \* BrowserEnvironmentBridge of websocket_server.py and its connection handlers
    websocket,      \* self.websocket: 0 is None, h the websocket of handler h
    connected,      \* self.connected
    ping_task,      \* self.ping_task: 0 is None, h the task created by handler h
    hPc,            \* where each handle_connection coroutine stands
    hOpen,          \* whether each websocket is still open
    hTarget,        \* the websocket a handler is closing at its await
    pingState,      \* the state of the keepalive task each handler created
    newest          \* history: the handler that set itself up last

connVars == <<websocket, connected, ping_task, hPc, hOpen, hTarget, pingState, newest>>

VARIABLES
    \* BrowserLunarRoverEnv of browser_env.py: the caller's thread and the
    \* server thread that runs _handle_observation
    waiting_for_response,   \* self.waiting_for_response
    current_obs,    \* self.current_obs: 0 is None, k the answer to request k
    wPc,            \* where the caller's reset() or step() stands
    wSeq,           \* the requests sent so far
    wRequest,       \* the request on its way to the browser, 0 for none
    wReply,         \* the observation on its way to the server thread, 0 for none
    wHandledAt,     \* history: where the caller stood when each answer was handled
    wOutcome        \* history: how each call ended

waitVars ==
    <<waiting_for_response, current_obs, wPc, wSeq, wRequest, wReply, wHandledAt, wOutcome>>

earlierVars ==
    <<geomVars, zoneVars, roverVars, simVars, envVars, physVars, ctorVars, obsVars, rectVars>>

laterVars == <<bodyVars, degenVars, connVars, waitVars>>

vars == <<earlierVars, laterVars>>

(***************************************************************************)
(* Arithmetic helpers                                                      *)
(***************************************************************************)
Abs(n) == IF n < 0 THEN -n ELSE n

Sign(n) == IF n < 0 THEN -1 ELSE IF n > 0 THEN 1 ELSE 0

Min2(a, b) == IF a <= b THEN a ELSE b

Max2(a, b) == IF a >= b THEN a ELSE b

\* n / d rounded to the nearest integer (d > 0): what a float result is to the grid
RDiv(n, d) == (2 * n + d) \div (2 * d)

\* n / d truncated toward zero (d > 0)
TDiv(n, d) == IF n >= 0 THEN n \div d ELSE -((-n) \div d)

SetMin(S) == CHOOSE m \in S : \A n \in S : m <= n

SetMax(S) == CHOOSE m \in S : \A n \in S : m >= n

(***************************************************************************)
(* Bounds of the model                                                     *)
(***************************************************************************)
\* updates (drag steps) of one rover object before the next reset
MaxUpdates == 3

\* torque_right/torque_left calls on one rover object
MaxTorqueCalls == 3

(***************************************************************************)
(* Units                                                                   *)
(***************************************************************************)
\* length units per metre
PerMeter == 2 * 100

\* angle units per degree: t / I_Edge = 4t/105 degrees for the rover, and
\* each drag multiplies by 4/5
AngPerDeg == 21 * 5 ^ MaxUpdates

TrigScale == 10 ^ 4

Deg(d) == d * AngPerDeg

FullTurn == Deg(360)

(***************************************************************************)
(* math.cos / math.sin of an angle in angle units, scaled by TrigScale.    *)
(* The angle is reduced to [0, 45] degrees by the symmetries of the        *)
(* circle, then the Taylor polynomial is evaluated in fixed point.         *)
(***************************************************************************)
\* radians * TrigScale of r angle units, 0 <= r <= 45 degrees
Radians(r) ==
    LET dg == r \div AngPerDeg
        f  == r % AngPerDeg
    IN  (dg * 174533) \div 1000 + (f * 1745) \div (10 * AngPerDeg)

\* a * b in fixed point
FMul(a, b) == (a * b) \div TrigScale

\* x - x^3/3! + x^5/5! - x^7/7!, of x and x^2 in fixed point
SinPoly(x, x2) ==
    x - RDiv(FMul(x2, x), 6) + RDiv(FMul(FMul(x2, x2), x), 120)
      - RDiv(FMul(FMul(FMul(x2, x2), x2), x), 5040)

\* 1 - x^2/2! + x^4/4! - x^6/6!, of x^2 in fixed point
CosPoly(x2) ==
    TrigScale - RDiv(x2, 2) + RDiv(FMul(x2, x2), 24)
      - RDiv(FMul(FMul(x2, x2), x2), 720)

SinTaylor(r) == SinPoly(Radians(r), FMul(Radians(r), Radians(r)))

CosTaylor(r) == CosPoly(FMul(Radians(r), Radians(r)))

\* sin and cos of r angle units, 0 <= r < 90 degrees
SinQ(r) == IF r <= Deg(45) THEN SinTaylor(r) ELSE CosTaylor(Deg(90) - r)

CosQ(r) == IF r <= Deg(45) THEN CosTaylor(r) ELSE SinTaylor(Deg(90) - r)

\* sin of quadrant q (0..3) plus r angle units, 0 <= r < 90 degrees
SinOf(q, r) ==
    CASE q = 0 -> SinQ(r)
      [] q = 1 -> CosQ(r)
      [] q = 2 -> -SinQ(r)
      [] OTHER -> -CosQ(r)

Sin(a) == SinOf((a % FullTurn) \div Deg(90), (a % FullTurn) % Deg(90))

\* cos(a) = sin(a + 90 degrees)
Cos(a) == Sin(a + Deg(90))


(***************************************************************************)
(* shapes.py: program constants (lengths in 5 mm units)                    *)
(***************************************************************************)
ARENA_WIDTH == 1376

ARENA_HEIGHT == 1000

(***************************************************************************)
(* shapes.py: Rectangle and Circle.  A shape is a record; cls is the class *)
(* that isinstance() dispatches on.                                        *)
(***************************************************************************)
Pt(x, y) == <<x, y>>

\* the rotation matrix of cosine c and sine s applied to (x, y)
RotX(x, y, c, s) == RDiv(x * c + y * s, TrigScale)

RotY(x, y, c, s) == RDiv(-x * s + y * c, TrigScale)

\* Rectangle.calculate_corners: the rotation matrix applied to the four
\* unrotated corners, shifted to the center
CornersAt(hw, hh, x, y, c, s) ==
    << Pt(RotX(-hw, -hh, c, s) + x, RotY(-hw, -hh, c, s) + y),
       Pt(RotX(hw, -hh, c, s) + x, RotY(hw, -hh, c, s) + y),
       Pt(RotX(hw, hh, c, s) + x, RotY(hw, hh, c, s) + y),
       Pt(RotX(-hw, hh, c, s) + x, RotY(-hw, hh, c, s) + y) >>

calculate_corners(width, height, x, y, angle) ==
    CornersAt(width \div 2, height \div 2, x, y, Cos(angle), Sin(angle))

\* Rectangle.__init__ (and Zone, whose angle is 0): corners are computed once
Rectangle(width, height, x, y, angle) ==
    [cls |-> "Rectangle", width |-> width, height |-> height, x |-> x, y |-> y,
     angle |-> angle, corners |-> calculate_corners(width, height, x, y, angle)]

\* Circle.__init__
Circle(radius, x, y) == [cls |-> "Circle", radius |-> radius, x |-> x, y |-> y]

\* Zone.__init__: top_left and bottom_right corners to center and dimensions
Zone(top_left, bottom_right) ==
    LET width  == bottom_right[1] - top_left[1]
        height == top_left[2] - bottom_right[2]
    IN  Rectangle(width, height, top_left[1] + width \div 2,
                  bottom_right[2] + height \div 2, 0)

\* One edge of the ray-casting test of Rectangle.contains: the edge straddles
\* the point's horizontal and the point is left of the crossing.  The crossing
\* is (x2-x1)*(py-y1)/(y2-y1+1e-12)+x1; both sides are multiplied by the
\* denominator, whose sign is that of y2-y1, and the 1e-12 decides only the
\* case of equality.
EdgeCrossed(p1, p2, point) ==
    LET dy  == p2[2] - p1[2]
        lhs == (point[1] - p1[1]) * dy
        rhs == (p2[1] - p1[1]) * (point[2] - p1[2])
    IN  /\ (p1[2] > point[2]) # (p2[2] > point[2])
        /\ IF dy > 0
           THEN lhs < rhs \/ (lhs = rhs /\ point[1] < p1[1])
           ELSE lhs > rhs \/ (lhs = rhs /\ point[1] > p1[1])

\* Rectangle.contains: inside iff an odd number of edges is crossed
contains(corners, point) ==
    Cardinality({i \in 1..4 :
        EdgeCrossed(corners[i], corners[(i % 4) + 1], point)}) % 2 = 1

\* Rectangle.is_in_bounds
is_in_bounds(corners) ==
    \A i \in 1..4 : ~(corners[i][1] < 0 \/ corners[i][1] > ARENA_WIDTH
                      \/ corners[i][2] < 0 \/ corners[i][2] > ARENA_HEIGHT)

\* get_axes: the normal of each edge
get_axes(rect) ==
    [i \in 1..4 |-> Pt(-(rect[(i % 4) + 1][2] - rect[i][2]),
                       rect[(i % 4) + 1][1] - rect[i][1])]

\* project: the dot products of the corners with the axis
project(rect, axis) == {rect[i][1] * axis[1] + rect[i][2] * axis[2] : i \in 1..4}

\* A slip in the comparison: "and" for "or", which no axis satisfies
AxisSeparatesBoth(c1, c2, axis) ==
    /\ ~(axis[1] = 0 /\ axis[2] = 0)
    /\ SetMax(project(c1, axis)) < SetMin(project(c2, axis))
    /\ SetMax(project(c2, axis)) < SetMin(project(c1, axis))

\* One axis of the separating-axis test: TRUE when it separates.  The source
\* divides the axis by its length first; a positive factor changes neither
\* comparison, and a zero-length axis is skipped.
AxisSeparates(c1, c2, axis) ==
    /\ ~(axis[1] = 0 /\ axis[2] = 0)
    /\ \/ SetMax(project(c1, axis)) < SetMin(project(c2, axis))
       \/ SetMax(project(c2, axis)) < SetMin(project(c1, axis))

\* A slip in the axes: only the receiver's edge normals are tested
rectangle_overlapOwnAxes(c1, c2) ==
    ~ \E i \in 1..4 : AxisSeparates(c1, c2, get_axes(c1)[i])

\* Rectangle.rectangle_overlap
rectangle_overlap(c1, c2) ==
    ~ \E i \in 1..4 : \/ AxisSeparates(c1, c2, get_axes(c1)[i])
                      \/ AxisSeparates(c1, c2, get_axes(c2)[i])

\* distance_point_to_segment(px, py, x1, y1, x2, y2) <= radius, on squares.
\* t is the projection clamped to [0, 1]; strictly inside (0, 1) the distance
\* is |cross| / |v|.  |cross| > radius * (|vx| + |vy|) already excludes it and
\* keeps the squares small.  The 1e-12 in the divisor of t moves the closest
\* point along the edge by about 1e-13 of its length: the distance to a point
\* of the edge is then above zero, and a radius of 0 is not reached there.
SegmentWithin(p, p1, p2, radius) ==
    LET vx == p2[1] - p1[1]
        vy == p2[2] - p1[2]
        wx == p[1] - p1[1]
        wy == p[2] - p1[2]
        wv == wx * vx + wy * vy
        vv == vx * vx + vy * vy
        cross == wx * vy - wy * vx
    IN  IF wv <= 0 THEN wx * wx + wy * wy <= radius * radius
        ELSE IF wv >= vv
             THEN (p[1] - p2[1]) * (p[1] - p2[1]) + (p[2] - p2[2]) * (p[2] - p2[2])
                      <= radius * radius
             ELSE /\ radius > 0
                  /\ Abs(cross) <= radius * (Abs(vx) + Abs(vy))
                  /\ cross * cross <= radius * radius * vv

\* Rectangle.circle_overlap
circle_overlap(corners, circle) ==
    \/ contains(corners, Pt(circle.x, circle.y))
    \/ \E i \in 1..4 : SegmentWithin(Pt(circle.x, circle.y), corners[i],
                                     corners[(i % 4) + 1], circle.radius)

\* Rectangle.collides
RectangleCollides(self, other) ==
    IF other.cls = "Circle" THEN circle_overlap(self.corners, other)
    ELSE rectangle_overlap(self.corners, other.corners)

\* Circle.collides
CircleCollides(self, other) ==
    IF other.cls = "Circle"
    THEN (other.x - self.x) * (other.x - self.x)
             + (other.y - self.y) * (other.y - self.y)
         <= (self.radius + other.radius) * (self.radius + other.radius)
    ELSE RectangleCollides(other, self)

\* shape.collides(other), dispatched on the receiver's class
collides(self, other) ==
    IF self.cls = "Circle" THEN CircleCollides(self, other)
    ELSE RectangleCollides(self, other)


(***************************************************************************)
(* shapes.py: PhysicsObject, PhysicsRectangle, Rover                       *)
(***************************************************************************)
\* Rover.__init__: PhysicsRectangle(canvas, .75, 1.5, 1, 1, '', '', mass=80)
ROVER_WIDTH == 150

ROVER_HEIGHT == 300

ROVER_X == 200

ROVER_Y == 200

ROVER_MASS == 80

\* PhysicsRectangle.__init__: 4 * _I_Edge in kg m^2, where
\* _I_CM = mass * (width/12 + height/12) and
\* _I_Edge = _I_CM + mass * (width/2)**2, the lengths in metres
I_Edge_x4(mass, width, height) ==
    (4 * mass * (width + height)) \div (12 * PerMeter)
    + (mass * width * width) \div (PerMeter * PerMeter)

\* PhysicsObject.__init__ and PhysicsRectangle.__init__
PhysicsRectangle(width, height, x, y, mass) ==
    [cls |-> "Rectangle", width |-> width, height |-> height, x |-> x, y |-> y,
     angle |-> 0, corners |-> calculate_corners(width, height, x, y, 0),
     mass |-> mass, vx |-> 0, vy |-> 0,
     I_Edge_x4 |-> I_Edge_x4(mass, width, height),
     omega_right |-> 0, omega_left |-> 0]

\* Rover.__init__
Rover == PhysicsRectangle(ROVER_WIDTH, ROVER_HEIGHT, ROVER_X, ROVER_Y, ROVER_MASS)

\* t / self._I_Edge, in angle units
TorqueDelta(r, t) == (t * 4 * AngPerDeg) \div r.I_Edge_x4

\* A slip: the accumulator is assigned, not added to
torque_rightAssigned(r, t) == [r EXCEPT !.omega_right = TorqueDelta(r, t)]

\* PhysicsRectangle.torque_right
torque_right(r, t) == [r EXCEPT !.omega_right = @ + TorqueDelta(r, t)]

\* PhysicsRectangle.torque_left
torque_left(r, t) == [r EXCEPT !.omega_left = @ + TorqueDelta(r, t)]

\* A slip in the sign: the drag is added
dragAdded(r) ==
    [r EXCEPT !.omega_right = @ + (@ * 2) \div 10,
              !.omega_left = @ + (@ * 2) \div 10]

\* PhysicsRectangle.drag: omega -= omega * .2
drag(r) ==
    [r EXCEPT !.omega_right = @ - (@ * 2) \div 10,
              !.omega_left = @ - (@ * 2) \div 10]

\* Rectangle.rotate_about: the center is rotated about (x, y) and the angle
\* increased; the corners are not recomputed
RotateWith(r, x, y, da, c, s) ==
    [r EXCEPT !.x = RotX(r.x - x, r.y - y, c, s) + x,
              !.y = RotY(r.x - x, r.y - y, c, s) + y,
              !.angle = @ + da]

rotate_about(r, x, y, da) == RotateWith(r, x, y, da, Cos(da), Sin(da))

\* the midpoint of two corners
Midpoint(p, q) == Pt(RDiv(p[1] + q[1], 2), RDiv(p[2] + q[2], 2))

\* self.rotate_about(*right_midpoint, self.omega_right) and
\* self.rotate_about(*left_midpoint, self.omega_left)
RotateBoth(r, right_midpoint, left_midpoint) ==
    rotate_about(
        rotate_about(r, right_midpoint[1], right_midpoint[2], r.omega_right),
        left_midpoint[1], left_midpoint[2], r.omega_left)

\* A copy-and-paste slip: the second rotation uses omega_right again
RotateBothRight(r, right_midpoint, left_midpoint) ==
    rotate_about(
        rotate_about(r, right_midpoint[1], right_midpoint[2], r.omega_right),
        left_midpoint[1], left_midpoint[2], r.omega_right)

\* self._x += self._vx; self._y += self._vy
Translate(r) == [r EXCEPT !.x = @ + r.vx, !.y = @ + r.vy]

\* self.calculate_corners()
Recalculate(r) ==
    [r EXCEPT !.corners = calculate_corners(r.width, r.height, r.x, r.y, r.angle)]

\* update() after the drag: tl, tr, br, bl = self.corners, the corners
\* stored before the first rotation, give both midpoints
UpdateDragged(r) ==
    Recalculate(Translate(RotateBoth(r, Midpoint(r.corners[2], r.corners[3]),
                                        Midpoint(r.corners[1], r.corners[4]))))

UpdateDraggedRight(r) ==
    Recalculate(Translate(RotateBothRight(r, Midpoint(r.corners[2], r.corners[3]),
                                             Midpoint(r.corners[1], r.corners[4]))))

updateRightTwice(r) == UpdateDraggedRight(drag(r))

\* PhysicsRectangle.update
update(r) == UpdateDragged(drag(r))

(***************************************************************************)
(* config/ml_config.py: MLConfig (lengths in 0.5 mm units)                 *)
(***************************************************************************)
WORLD_WIDTH == 19760

WORLD_HEIGHT == 10000

\* zone boundaries (x_min, x_max, y_min, y_max)
ZONE_STARTING == <<0, 4000, 6000, 10000>>

ZONE_EXCAVATION == <<0, 5000, 0, 6000>>

ZONE_OBSTACLE == <<5000, 13760, 0, 10000>>

ZONE_CONSTRUCTION == <<13760, 19760, 0, 3000>>

ZONE_TARGET_BERM == <<13760, 17160, 700, 2300>>

(***************************************************************************)
(* lunabotics_env.py: zone classification                                  *)
(***************************************************************************)
\* A slip in the comparison: the upper edges are left out
_point_in_boundsOpen(x, y, b) == b[1] <= x /\ x < b[2] /\ b[3] <= y /\ y < b[4]

\* LunaboticsEnv._point_in_bounds
_point_in_bounds(x, y, b) == b[1] <= x /\ x <= b[2] /\ b[3] <= y /\ y <= b[4]

\* A slip in the order: the construction zone is tested before the berm in it
_get_zoneConstructionFirst(position) ==
    LET x == position[1]
        y == position[2]
    IN  IF _point_in_bounds(x, y, ZONE_CONSTRUCTION) THEN "CONSTRUCTION"
        ELSE IF _point_in_bounds(x, y, ZONE_TARGET_BERM) THEN "TARGET_BERM"
        ELSE IF _point_in_bounds(x, y, ZONE_STARTING) THEN "STARTING"
        ELSE IF _point_in_bounds(x, y, ZONE_EXCAVATION) THEN "EXCAVATION"
        ELSE IF _point_in_bounds(x, y, ZONE_OBSTACLE) THEN "OBSTACLE"
        ELSE "NONE"

\* LunaboticsEnv._get_zone: the zones in priority order
_get_zone(position) ==
    LET x == position[1]
        y == position[2]
    IN  IF _point_in_bounds(x, y, ZONE_TARGET_BERM) THEN "TARGET_BERM"
        ELSE IF _point_in_bounds(x, y, ZONE_CONSTRUCTION) THEN "CONSTRUCTION"
        ELSE IF _point_in_bounds(x, y, ZONE_STARTING) THEN "STARTING"
        ELSE IF _point_in_bounds(x, y, ZONE_EXCAVATION) THEN "EXCAVATION"
        ELSE IF _point_in_bounds(x, y, ZONE_OBSTACLE) THEN "OBSTACLE"
        ELSE "NONE"

(***************************************************************************)
(* Collision queries on pairs of shapes: the inputs are drawn from a grid  *)
(* of centers, the rover's and the column's dimensions, the radii of a     *)
(* small boulder and a large crater, and three headings.                   *)
(***************************************************************************)
\* the grid of centers is (0..GridMax) x (0..GridMax), GridStep apart
GridMax == 2

GridStep == 10 ^ 2

GridPoints == {Pt(i * GridStep, j * GridStep) : i, j \in 0..GridMax}

GeomAngles == {Deg(0), Deg(30), Deg(90)}

GeomDims == {<<150, 300>>, <<100, 100>>}

GeomRadii == {30, 50}

GeomRectangles ==
    {Rectangle(d[1], d[2], p[1], p[2], a) : d \in GeomDims, p \in GridPoints,
                                            a \in GeomAngles}

GeomCircles == {Circle(r, p[1], p[2]) : r \in GeomRadii, p \in GridPoints}

GeomShapes == GeomRectangles \cup GeomCircles

RoverIdle ==
    /\ rover = "none"
    /\ updates = 0
    /\ torqueCalls = 0
    /\ applied = "none"

GeomIdle == qA = "none" /\ qB = "none" /\ qDone = FALSE /\ qAB = FALSE /\ qBA = FALSE

PhysIdle == pRect = "none" /\ pCircle = "none" /\ pDone = FALSE /\ pHit = FALSE

\* env_config = None, and env_config = a dict with these keys
NoEnvConfig == [given |-> FALSE, keys |-> {}]

EnvConfig(keys) == [given |-> TRUE, keys |-> keys]

ObsIdle == oWorld = "none" /\ oDone = FALSE /\ oObs = <<>>

RectIdle == theRect = "none" /\ rectOps = 0 /\ rectLast = "none"

BodyIdle == bBody = "none" /\ bRate = 0 /\ bOps = 0 /\ bLast = "none"

DegenIdle == dCall = "none" /\ dDone = FALSE /\ dOutcome = "none"

ConnIdle ==
    /\ websocket = 0 /\ connected = FALSE /\ ping_task = 0
    /\ hPc = <<>> /\ hOpen = <<>> /\ hTarget = <<>> /\ pingState = <<>> /\ newest = 0

WaitIdle ==
    /\ waiting_for_response = FALSE /\ current_obs = 0
    /\ wPc = "none" /\ wSeq = 0 /\ wRequest = 0 /\ wReply = 0
    /\ wHandledAt = <<>> /\ wOutcome = <<>>

LaterIdle == BodyIdle /\ DegenIdle /\ ConnIdle /\ WaitIdle

CtorIdle ==
    /\ cEnvConfig = NoEnvConfig
    /\ cRewardConfig = "None"
    /\ cRewardStage = 0
    /\ cPhase = "new"
    /\ cRaised = "none"

ZoneIdle == zPoint = Pt(0, 0) /\ zDone = FALSE /\ zResult = "NONE"

SimIdle ==
    driver = "none" /\ obstacles = <<>> /\ toPlace = <<>> /\ arena = 0 /\ made = <<>>

EnvIdle ==
    /\ body = "none"
    /\ rocks = <<>>
    /\ craters = <<>>
    /\ orbs = <<>>
    /\ orbs_held = <<>>
    /\ orbs_deposited = 0
    /\ current_zone = "NONE"
    /\ steps = 0
    /\ previous_state = "none"
    /\ terminated = FALSE
    /\ truncated = FALSE
    /\ trace = "none"

GeomInit ==
    /\ EnvIdle
    /\ ZoneIdle
    /\ RoverIdle
    /\ SimIdle
    /\ PhysIdle
    /\ CtorIdle
    /\ ObsIdle
    /\ RectIdle
    /\ LaterIdle
    /\ qA \in GeomShapes
    /\ qB \in GeomShapes
    /\ qDone = FALSE
    /\ qAB = FALSE
    /\ qBA = FALSE

\* the two calls A.collides(B) and B.collides(A)
Collide ==
    /\ ~qDone
    /\ qDone' = TRUE
    /\ qAB' = collides(qA, qB)
    /\ qBA' = collides(qB, qA)
    /\ UNCHANGED <<qA, qB>>
    /\ UNCHANGED <<zoneVars, roverVars, simVars, envVars, physVars, ctorVars, obsVars, rectVars, laterVars>>

GeomNext == Collide

SpecGeom == GeomInit /\ [][GeomNext]_vars

\* the x-range and the y-range of a rectangle's corners
XRange(corners) == {corners[i][1] : i \in 1..4}

YRange(corners) == {corners[i][2] : i \in 1..4}

RangesDisjoint(R1, R2) == SetMax(R1) < SetMin(R2) \/ SetMax(R2) < SetMin(R1)

AxisAligned(rect) == rect.angle % Deg(90) = 0

BothRectangles == qA.cls = "Rectangle" /\ qB.cls = "Rectangle"

\* C9: for every pair of shapes (rectangles and circles), A.collides(B) and
\* B.collides(A) return the same boolean.
C9_Symmetry == qDone => qAB = qBA

\* C9 witness: a rotated rectangle and an axis-aligned one that collide, and a
\* query that has answered both ways.
C9_Witness ==
    /\ qDone /\ qAB /\ qBA
    /\ BothRectangles
    /\ qA.angle = Deg(30) /\ qB.angle = Deg(0)
    /\ <<qA.x, qA.y>> # <<qB.x, qB.y>>

InsideTurned(rect, point) ==
    /\ 2 * Abs((point[1] - rect.x) * Cos(rect.angle) - (point[2] - rect.y) * Sin(rect.angle))
           <= rect.width * TrigScale
    /\ 2 * Abs((point[1] - rect.x) * Sin(rect.angle) + (point[2] - rect.y) * Cos(rect.angle))
           <= rect.height * TrigScale

\* C13 for Rectangle.collides(circle) of shapes.py: true exactly when the
\* center is inside the rectangle or no farther than the radius from one of
\* its four edges, at every heading.
C13_ShapesRectCircle ==
    (qDone /\ qA.cls = "Rectangle" /\ qB.cls = "Circle") =>
        (qAB <=> \/ InsideTurned(qA, Pt(qB.x, qB.y))
                 \/ \E i \in 1..4 :
                        SegmentWithin(Pt(qB.x, qB.y), qA.corners[i],
                                      qA.corners[(i % 4) + 1], qB.radius))

\* a circle tangent to the right edge of an unrotated rectangle collides
C13_ShapesTangent ==
    /\ qDone /\ qA.cls = "Rectangle" /\ qB.cls = "Circle"
    /\ qA.angle = 0
    /\ qB.y = qA.y
    /\ 2 * (qB.x - qA.x) = qA.width + 2 * qB.radius
    /\ qAB


(***************************************************************************)
(* Zone queries: the positions are a grid over the world and a margin      *)
(* beyond it, and the corners of every zone.                               *)
(***************************************************************************)
\* the grid of positions is (0..ZoneMaxI) x (0..ZoneMaxJ), ZoneStep apart
ZoneMaxI == 20

ZoneMaxJ == 10

ZoneStep == 10 ^ 3

ZoneTable == {ZONE_STARTING, ZONE_EXCAVATION, ZONE_OBSTACLE, ZONE_CONSTRUCTION,
              ZONE_TARGET_BERM}

ZonePoints ==
    {Pt(i * ZoneStep, j * ZoneStep) : i \in 0..ZoneMaxI, j \in 0..ZoneMaxJ}
    \cup {Pt(b[i], b[j]) : b \in ZoneTable, i \in {1, 2}, j \in {3, 4}}

ZoneInit ==
    /\ EnvIdle
    /\ GeomIdle
    /\ RoverIdle
    /\ SimIdle
    /\ PhysIdle
    /\ CtorIdle
    /\ ObsIdle
    /\ RectIdle
    /\ LaterIdle
    /\ zPoint \in ZonePoints
    /\ zDone = FALSE
    /\ zResult = "NONE"

\* one call of _get_zone
Classify ==
    /\ ~zDone
    /\ zDone' = TRUE
    /\ zResult' = _get_zone(zPoint)
    /\ UNCHANGED zPoint
    /\ UNCHANGED <<geomVars, roverVars, simVars, envVars, physVars, ctorVars, obsVars, rectVars, laterVars>>

ZoneNext == Classify

SpecZone == ZoneInit /\ [][ZoneNext]_vars

\* the positions (1.0, 4.0) and (7.0, 0.5) of the scenario
ScenarioStart == Pt(2000, 8000)

ScenarioBuild == Pt(14000, 1000)

\* C3 as stated: with the default zone table (1.0, 4.0) is classified STARTING
\* and (7.0, 0.5) is classified CONSTRUCTION.
C3_AsStated ==
    zDone => /\ zPoint = ScenarioStart => zResult = "STARTING"
             /\ zPoint = ScenarioBuild => zResult = "CONSTRUCTION"

\* C3 as amended: (1.0, 4.0) is classified STARTING and (7.0, 0.5), which lies
\* in the target berm inside the construction zone, is classified TARGET_BERM.
C3_Amended ==
    zDone => /\ zPoint = ScenarioStart => zResult = "STARTING"
             /\ zPoint = ScenarioBuild => zResult = "TARGET_BERM"

\* C3 witness: the query of (7.0, 0.5) has answered.
C3_Witness == zDone /\ zPoint = ScenarioBuild /\ zResult = "TARGET_BERM"

\* the zones in the order _get_zone tests them: the earlier, the higher the
\* priority
ZonePriority ==
    << [id |-> "TARGET_BERM", bounds |-> ZONE_TARGET_BERM],
       [id |-> "CONSTRUCTION", bounds |-> ZONE_CONSTRUCTION],
       [id |-> "STARTING", bounds |-> ZONE_STARTING],
       [id |-> "EXCAVATION", bounds |-> ZONE_EXCAVATION],
       [id |-> "OBSTACLE", bounds |-> ZONE_OBSTACLE] >>

\* the ranks of the zones that contain the position, their four edges included
ZonesAround(position) ==
    {i \in 1..Len(ZonePriority) :
        /\ ZonePriority[i].bounds[1] <= position[1]
        /\ position[1] <= ZonePriority[i].bounds[2]
        /\ ZonePriority[i].bounds[3] <= position[2]
        /\ position[2] <= ZonePriority[i].bounds[4]}

\* the position lies on an edge of the zone of rank i
OnEdge(position, i) ==
    \/ position[1] \in {ZonePriority[i].bounds[1], ZonePriority[i].bounds[2]}
    \/ position[2] \in {ZonePriority[i].bounds[3], ZonePriority[i].bounds[4]}

\* C11: _get_zone returns the zone of highest priority among those whose
\* bounds, edges included, contain the position, and NONE when there is none;
\* the call leaves the position and every other variable as they were.
C11_HighestPriority ==
    /\ [](zDone =>
            IF ZonesAround(zPoint) = {} THEN zResult = "NONE"
            ELSE zResult = ZonePriority[SetMin(ZonesAround(zPoint))].id)
    /\ [][zDone' # zDone =>
            UNCHANGED <<zPoint, geomVars, roverVars, simVars, envVars, physVars, ctorVars, obsVars, rectVars, laterVars>>]_vars

\* C11 witness: the query of a position on an edge of the zone returned, with
\* a zone of lower priority around it too.
C11_Witness ==
    /\ zDone
    /\ Cardinality(ZonesAround(zPoint)) >= 2
    /\ OnEdge(zPoint, SetMin(ZonesAround(zPoint)))
    /\ zResult = ZonePriority[SetMin(ZonesAround(zPoint))].id


(***************************************************************************)
(* One rover driven through its interface: torque_right, torque_left and   *)
(* update, in any order.  The torques are those of the keys (5) and ten    *)
(* times as much.                                                          *)
(***************************************************************************)
Torques == {-50, -5, 5, 50}

RoverInit ==
    /\ EnvIdle
    /\ GeomIdle
    /\ ZoneIdle
    /\ SimIdle
    /\ PhysIdle
    /\ CtorIdle
    /\ ObsIdle
    /\ RectIdle
    /\ LaterIdle
    /\ rover = Rover
    /\ updates = 0
    /\ torqueCalls = 0
    /\ applied = [right |-> 0, left |-> 0, late |-> FALSE]

TorqueRight(t) ==
    /\ torqueCalls < MaxTorqueCalls
    /\ rover' = torque_right(rover, t)
    /\ torqueCalls' = torqueCalls + 1
    /\ applied' = [applied EXCEPT !.right = @ + t, !.late = @ \/ updates > 0]
    /\ UNCHANGED updates
    /\ UNCHANGED <<geomVars, zoneVars, simVars, envVars, physVars, ctorVars, obsVars, rectVars, laterVars>>

TorqueLeft(t) ==
    /\ torqueCalls < MaxTorqueCalls
    /\ rover' = torque_left(rover, t)
    /\ torqueCalls' = torqueCalls + 1
    /\ applied' = [applied EXCEPT !.left = @ + t, !.late = @ \/ updates > 0]
    /\ UNCHANGED updates
    /\ UNCHANGED <<geomVars, zoneVars, simVars, envVars, physVars, ctorVars, obsVars, rectVars, laterVars>>

Update ==
    /\ updates < MaxUpdates
    /\ rover' = update(rover)
    /\ updates' = updates + 1
    /\ UNCHANGED <<torqueCalls, applied>>
    /\ UNCHANGED <<geomVars, zoneVars, simVars, envVars, physVars, ctorVars, obsVars, rectVars, laterVars>>

RoverNext ==
    \/ \E t \in Torques : TorqueRight(t)
    \/ \E t \in Torques : TorqueLeft(t)
    \/ Update

SpecRover == RoverInit /\ [][RoverNext]_vars

\* from rest, equal and opposite torques were applied, and then only updates
EqualOpposite ==
    /\ applied.right # 0
    /\ applied.left = -applied.right
    /\ ~applied.late
    /\ updates >= 1

\* everything of the rectangle but the two accumulators
Rest(r) == [r EXCEPT !.omega_right = 0, !.omega_left = 0]

\* C22: a torque_right(t) call adds t / I_edge to omega_right and a
\* torque_left(t) call adds it to omega_left; the other accumulator, the
\* center, the angle, the corners and the linear velocity stay as they were;
\* and the calls made before the first update add up: each accumulator is the
\* sum of its torques over I_edge.
C22_TorqueAdds ==
    /\ [](updates = 0 =>
            /\ rover.omega_right * rover.I_Edge_x4 = applied.right * 4 * AngPerDeg
            /\ rover.omega_left * rover.I_Edge_x4 = applied.left * 4 * AngPerDeg
            /\ Rest(rover) = Rover)
    /\ [][torqueCalls' # torqueCalls =>
            /\ Rest(rover') = Rest(rover)
            /\ (rover'.omega_right - rover.omega_right) * rover.I_Edge_x4 =
                   (applied'.right - applied.right) * 4 * AngPerDeg
            /\ (rover'.omega_left - rover.omega_left) * rover.I_Edge_x4 =
                   (applied'.left - applied.left) * 4 * AngPerDeg]_vars

\* C22 witness: three torque calls before any update, on both sides, the
\* right accumulator holding the sum of two of them
C22_Witness ==
    /\ updates = 0
    /\ torqueCalls >= 3
    /\ applied.right = 55
    /\ applied.left = -5
    /\ rover.omega_right * rover.I_Edge_x4 = 55 * 4 * AngPerDeg
    /\ rover.omega_left * rover.I_Edge_x4 = -5 * 4 * AngPerDeg

\* a torque call made after updates have turned and moved the rover
C22_LateWitness == applied.late /\ rover.angle # 0 /\ rover.x # ROVER_X /\ torqueCalls >= 2

\* the squared distance of the rover's center from where Rover() puts it
FromStart2 ==
    (rover.x - ROVER_X) * (rover.x - ROVER_X) + (rover.y - ROVER_Y) * (rover.y - ROVER_Y)

\* C2 as stated: from rest, equal and opposite torques followed by N >= 1
\* updates change the heading and leave the center where it was (within one
\* length unit, 5 mm).
C2_AsStated == EqualOpposite => (rover.angle # 0 /\ FromStart2 <= 1)

\* C2 as amended: from rest, equal and opposite torques followed by N >= 1
\* updates leave the heading at its original value, and each update translates
\* the center by (w (cos a - 1), w sin a), a the right accumulator the update
\* rotates by and w the rover's width (here to the rounding of two rotations).
C2_Amended ==
    [][(EqualOpposite' /\ updates' = updates + 1) =>
        LET a == rover'.omega_right
        IN  /\ rover'.angle = 0
            /\ Abs((rover'.x - rover.x)
                   - RDiv(ROVER_WIDTH * (Cos(a) - TrigScale), TrigScale)) <= 1
            /\ Abs((rover'.y - rover.y)
                   - RDiv(ROVER_WIDTH * Sin(a), TrigScale)) <= 1]_vars

\* C2 witness: equal and opposite torques and updates have moved the center
\* and left the heading.
C2_Witness == EqualOpposite /\ rover.angle = 0 /\ FromStart2 > 1

\* one accumulator before and after a drag: a zero stays zero, any other
\* value keeps its sign and shrinks
Decays(before, after) ==
    IF before = 0 THEN after = 0
    ELSE Sign(after) = Sign(before) /\ Abs(after) < Abs(before)

start_zone == Zone(Pt(0, 400), Pt(400, 0))

construction_zone == Zone(Pt(916, 160), Pt(916 + 340, 20))

column == Zone(Pt(688 - 50, 500 - 50), Pt(688 + 50, 500 + 50))

\* obstacle.collides(start_zone) or obstacle.collides(column) or
\* obstacle.collides(construction_zone)
CollidesZones(obstacle) ==
    \/ collides(obstacle, start_zone)
    \/ collides(obstacle, column)
    \/ collides(obstacle, construction_zone)

\* obstacle.collides(o) for some o of the list
CollidesPlaced(obstacle, placed) ==
    \E i \in 1..Len(placed) : collides(obstacle, placed[i])

\* Environment.create_obstacle, one pass of its loop: whether the candidate
\* is deleted
RejectedEnvironment(obstacle, placed) ==
    CollidesPlaced(obstacle, placed) \/ CollidesZones(obstacle)

\* create_obstacle of main.py, one pass of its loop: the zones are tested
\* inside "for o in obstacles", so only when the list is not empty
RejectedMain(obstacle, placed) ==
    \E i \in 1..Len(placed) : collides(obstacle, placed[i]) \/ CollidesZones(obstacle)

Rejected(d, obstacle, placed) ==
    IF d = "main" THEN RejectedMain(obstacle, placed)
    ELSE RejectedEnvironment(obstacle, placed)

\* reset_arena draws randint(6, 12) boulders and randint(3, 5) craters; the
\* model draws 1..MaxBoulders and 1..MaxCraters
MaxBoulders == 2

MaxCraters == 1

\* the constructors reset_arena calls, in order
Plan(nb, nc) == [i \in 1..(nb + nc) |-> IF i <= nb THEN "Boulder" ELSE "Crater"]

Plans == {Plan(nb, nc) : nb \in 1..MaxBoulders, nc \in 1..MaxCraters}

\* Boulder() and Crater() draw a radius in [.15, .2) and [.2, .25) and a
\* center at least a radius from every wall; the model draws from these
BoulderRadii == {30, 35}

CraterRadii == {40, 45}

SimPoints ==
    { Pt(200, 200),     \* on the rover's starting pose, in the start zone
      Pt(430, 200),     \* 30 units right of the start zone
      Pt(688, 500),     \* the middle of the column
      Pt(1000, 100),    \* in the construction zone
      Pt(900, 800),     \* two free places 60 units apart
      Pt(960, 800),
      Pt(1200, 600) }   \* a free place

Boulder == {Circle(r, p[1], p[2]) : r \in BoulderRadii, p \in SimPoints}

Crater == {Circle(r, p[1], p[2]) : r \in CraterRadii, p \in SimPoints}

Candidates(constructor) == IF constructor = "Boulder" THEN Boulder ELSE Crater

\* the keys update() acts on
Keys == {"a", "q", "d", "e"}

\* update() calls on one rover that the model follows
MaxSimUpdates == 2

\* reset_arena calls that update() makes and the model follows
MaxArenas == 2

\* A slip: the list is not emptied
ClearObstaclesKept(placed) == placed

\* reset_arena: "for o in obstacles: o.delete()" and "obstacles = []"
ClearObstacles(placed) == <<>>

\* "for key in keys_pressed": the torque calls of one update
PressKeys(r, keys) ==
    torque_left(
        torque_right(r, (IF "q" \in keys THEN 5 ELSE 0) - (IF "a" \in keys THEN 5 ELSE 0)),
        (IF "d" \in keys THEN 5 ELSE 0) - (IF "e" \in keys THEN 5 ELSE 0))

\* the collision test of update(): an obstacle, or else the column
SimCollision(r, placed) ==
    \/ \E i \in 1..Len(placed) : collides(r, placed[i])
    \/ collides(r, column)

\* Environment.__init__ and the module level of main.py, up to the first
\* pass of create_obstacle in reset_arena
SimInit ==
    /\ EnvIdle
    /\ GeomIdle
    /\ ZoneIdle
    /\ PhysIdle
    /\ CtorIdle
    /\ ObsIdle
    /\ RectIdle
    /\ LaterIdle
    /\ driver \in {"environment", "main"}
    /\ obstacles = <<>>
    /\ toPlace \in Plans
    /\ arena = 1
    /\ made = <<>>
    /\ rover = Rover
    /\ updates = 0
    /\ torqueCalls = 0
    /\ applied = [right |-> 0, left |-> 0, late |-> FALSE]

\* one pass of the loop of create_obstacle: a candidate is constructed, and
\* deleted or appended
CreateObstacle(obstacle) ==
    /\ toPlace # <<>>
    /\ obstacle \in Candidates(Head(toPlace))
    /\ IF Rejected(driver, obstacle, obstacles)
       THEN UNCHANGED <<obstacles, toPlace, made>>
       ELSE /\ obstacles' = Append(obstacles, obstacle)
            /\ made' = Append(made, arena)
            /\ toPlace' = Tail(toPlace)
    /\ UNCHANGED <<driver, arena, roverVars>>
    /\ UNCHANGED <<geomVars, zoneVars, envVars, physVars, ctorVars, obsVars, rectVars, laterVars>>

\* update() (environment.py) and loop() (main.py) once reset_arena has
\* returned: torques of the keys, rover.update(), and reset_arena() on a
\* collision, which empties the list and ends with a new Rover
SimUpdate(keys) ==
    /\ toPlace = <<>>
    /\ updates < MaxSimUpdates
    /\ arena <= MaxArenas
    /\ IF SimCollision(update(PressKeys(rover, keys)), obstacles)
       THEN /\ obstacles' = ClearObstacles(obstacles)
            /\ made' = ClearObstacles(made)
            /\ arena' = arena + 1
            /\ toPlace' \in Plans
            /\ rover' = Rover
            /\ updates' = 0
       ELSE /\ rover' = update(PressKeys(rover, keys))
            /\ updates' = updates + 1
            /\ UNCHANGED <<obstacles, toPlace, arena, made>>
    /\ UNCHANGED <<driver, torqueCalls, applied>>
    /\ UNCHANGED <<geomVars, zoneVars, envVars, physVars, ctorVars, obsVars, rectVars, laterVars>>

SimNext ==
    \/ \E obstacle \in Boulder \cup Crater : CreateObstacle(obstacle)
    \/ \E keys \in SUBSET Keys : SimUpdate(keys)

SpecSim == SimInit /\ [][SimNext]_vars

\* no two obstacles of the list overlap
NoTwoOverlap ==
    \A i, j \in 1..Len(obstacles) : i < j => ~collides(obstacles[i], obstacles[j])

\* no obstacle of the list overlaps a protected zone
NoZoneOverlap == \A i \in 1..Len(obstacles) : ~CollidesZones(obstacles[i])

\* C1 as stated: once reset_arena has returned, no two obstacle circles
\* overlap and no obstacle circle overlaps the start zone, the construction
\* zone or the column, the first obstacle placed included.
C1_PlacementValid == toPlace = <<>> => (NoTwoOverlap /\ NoZoneOverlap)

\* C1 for environment.py alone, whose create_obstacle tests the zones outside
\* the loop over the list
C1_EnvironmentValid ==
    (driver = "environment") => (NoTwoOverlap /\ NoZoneOverlap)

\* C1 witness: reset_arena of main.py has returned with its first obstacle
\* on a protected zone.
C1_Witness ==
    /\ driver = "main"
    /\ toPlace = <<>>
    /\ Len(obstacles) >= 2
    /\ CollidesZones(obstacles[1])

\* the pose Rover() constructs: center (1, 1), heading 0, no linear velocity,
\* no angular velocity on either side
AtStartingPose(r) ==
    /\ r.x = ROVER_X
    /\ r.y = ROVER_Y
    /\ r.angle = 0
    /\ r.corners = calculate_corners(ROVER_WIDTH, ROVER_HEIGHT, ROVER_X, ROVER_Y, 0)
    /\ r.vx = 0
    /\ r.vy = 0
    /\ r.omega_right = 0
    /\ r.omega_left = 0

\* C12: every obstacle of the list was constructed by the latest reset_arena
\* call, so none that existed before the call is left; and the update that
\* calls reset_arena leaves the rover at the starting pose with heading 0 and
\* no linear or angular velocity.
C12_ResetDiscards ==
    /\ [](Len(made) = Len(obstacles) /\ \A i \in 1..Len(made) : made[i] = arena)
    /\ [][arena' # arena => (obstacles' = <<>> /\ AtStartingPose(rover'))]_vars

\* C12 witness: a second reset_arena call, made by an update in which the
\* turning rover met an obstacle, has returned with its own obstacles.
\* C15 for the interactive simulation: an update that finds no collision
\* leaves the obstacle list as it was.
C15_SimStatic == [][arena' = arena /\ toPlace = <<>> => obstacles' = obstacles]_vars

C12_Witness ==
    /\ arena >= 2
    /\ toPlace = <<>>
    /\ Len(obstacles) >= 2
    /\ AtStartingPose(rover)

\* create_obstacle cannot return: every candidate its constructor can draw
\* is deleted by the pass that draws it
Blocked ==
    /\ toPlace # <<>>
    /\ \A c \in Candidates(Head(toPlace)) : Rejected(driver, c, obstacles)

\* a pass of create_obstacle has ended the call: the list is the old list and
\* one candidate, which overlaps none of the old list and no protected zone
Committed(placed, after) ==
    /\ Len(after) = Len(placed) + 1
    /\ SubSeq(after, 1, Len(placed)) = placed
    /\ ~CollidesPlaced(after[Len(after)], placed)
    /\ ~CollidesZones(after[Len(after)])

\* C20: a create_obstacle call ends only by appending one candidate that
\* overlaps no obstacle of the list and no protected zone, and while every
\* candidate is rejected the call goes on: reset_arena does not return.
C20_PlacementEnds ==
    /\ [][(arena' = arena /\ toPlace' # toPlace) =>
             (toPlace' = Tail(toPlace) /\ Committed(obstacles, obstacles'))]_vars
    /\ [][Blocked => (Blocked' /\ UNCHANGED <<obstacles, toPlace>>)]_vars

\* C20 witness: create_obstacle of main.py has returned from its first call
\* with a candidate on a protected zone, and reset_arena goes on
C20_Witness ==
    /\ driver = "main"
    /\ toPlace # <<>>
    /\ Len(obstacles) = 1
    /\ CollidesZones(obstacles[1])

\* C20 for environment.py alone, and for the later calls of main.py
C20_EnvironmentEnds ==
    [][(arena' = arena /\ toPlace' # toPlace /\ (driver = "environment" \/ obstacles # <<>>)) =>
          (toPlace' = Tail(toPlace) /\ Committed(obstacles, obstacles'))]_vars

\* C20, the part about termination: no pass count is kept, so a call whose
\* candidates are all rejected stays where it is, in both programs
C20_NeverReturns == [][Blocked => (Blocked' /\ UNCHANGED <<obstacles, toPlace>>)]_vars

\* a call of Environment.create_obstacle that no candidate can end
C20_BlockedWitness == Blocked /\ driver = "environment" /\ Len(obstacles) >= 2

(***************************************************************************)
(* python_training/env/physics.py.  Lengths are 0.5 mm units; a velocity   *)
(* is stored as the displacement of one step in 1/VelScale units, an angle *)
(* in millidegrees, an angular velocity as the rotation of one step in     *)
(* 1/AVelScale millidegrees.                                               *)
(***************************************************************************)
\* steps per second: DT = 1/60
FPS == 60

VelScale == 10 ^ 3

AVelScale == 10 ^ 2

MilliDeg == 10 ^ 3

\* np.sqrt, to the nearest unit: the floor by bisection, then rounded
RECURSIVE SqrtFloor(_, _, _)
SqrtFloor(n, lo, hi) ==
    IF lo >= hi THEN lo
    ELSE IF ((lo + hi + 1) \div 2) * ((lo + hi + 1) \div 2) <= n
         THEN SqrtFloor(n, (lo + hi + 1) \div 2, hi)
         ELSE SqrtFloor(n, lo, (lo + hi + 1) \div 2 - 1)

SqrtRound(n, f) == IF n - f * f > f THEN f + 1 ELSE f

Sqrt(n) == SqrtRound(n, SqrtFloor(n, 0, 2 ^ 15))

\* millidegrees to the angle units of Cos and Sin
TrigAngle(a) ==
    (a \div MilliDeg) * AngPerDeg + RDiv((a % MilliDeg) * AngPerDeg, MilliDeg)

np_cos(a) == Cos(TrigAngle(a))

np_sin(a) == Sin(TrigAngle(a))

\* np.arctan2(np.sin(a), np.cos(a)): the angle brought into (-180, 180] degrees
NormalizeAngle(a) == ((a + 180 * MilliDeg - 1) % (360 * MilliDeg)) - 180 * MilliDeg + 1

\* RigidBody: friction and restitution are kept in tenths
RigidBody(x, y, vx, vy, angle, angular_velocity, width, height, friction_x10) ==
    [x |-> x, y |-> y, vx |-> vx, vy |-> vy, angle |-> angle,
     angular_velocity |-> angular_velocity, width |-> width, height |-> height,
     friction_x10 |-> friction_x10, restitution_x10 |-> 3]

\* Circle of physics.py
PhysCircle(x, y, radius, is_static) ==
    [x |-> x, y |-> y, radius |-> radius, is_static |-> is_static]

\* RigidBody.apply_force: velocity += force * dt, (fx, fy) being force * dt
apply_force(b, fx, fy) == [b EXCEPT !.vx = @ + fx, !.vy = @ + fy]

\* RigidBody.apply_torque: angular_velocity += torque * dt, t being torque * dt
apply_torque(b, t) == [b EXCEPT !.angular_velocity = @ + t]

\* v * (1.0 - friction * dt)
Damp(v, friction_x10) == RDiv(v * (10 * FPS - friction_x10), 10 * FPS)

\* RigidBody.update, "Apply friction"
ApplyFriction(b) ==
    [b EXCEPT !.vx = Damp(@, b.friction_x10), !.vy = Damp(@, b.friction_x10),
              !.angular_velocity = Damp(@, b.friction_x10)]

\* RigidBody.update, "Update position" and "Normalize angle"
UpdatePosition(b) ==
    [b EXCEPT !.x = @ + RDiv(b.vx, VelScale), !.y = @ + RDiv(b.vy, VelScale),
              !.angle = NormalizeAngle(@ + RDiv(b.angular_velocity, AVelScale))]

\* RigidBody.update
RigidBody_update(b) == UpdatePosition(ApplyFriction(b))

\* RigidBody.get_corners: corner (x, y) goes to (x cos - y sin, x sin + y cos)
get_corners(b) ==
    CornersAt(b.width \div 2, b.height \div 2, b.x, b.y, np_cos(b.angle), -np_sin(b.angle))

\* -v * restitution
Reflect(v, restitution_x10) == RDiv(-v * restitution_x10, 10)

\* _check_collisions, "Wall collisions", the x walls: half_w is half of the
\* width whatever the heading
WallX(b, world_width) ==
    IF b.x - b.width \div 2 < 0
    THEN [b EXCEPT !.x = b.width \div 2, !.vx = Reflect(@, b.restitution_x10)]
    ELSE IF b.x + b.width \div 2 > world_width
         THEN [b EXCEPT !.x = world_width - b.width \div 2,
                        !.vx = Reflect(@, b.restitution_x10)]
         ELSE b

\* _check_collisions, "Wall collisions", the y walls
WallY(b, world_height) ==
    IF b.y - b.height \div 2 < 0
    THEN [b EXCEPT !.y = b.height \div 2, !.vy = Reflect(@, b.restitution_x10)]
    ELSE IF b.y + b.height \div 2 > world_height
         THEN [b EXCEPT !.y = world_height - b.height \div 2,
                        !.vy = Reflect(@, b.restitution_x10)]
         ELSE b

\* max(lo, min(v, hi))
Clamp(v, lo, hi) == Max2(lo, Min2(v, hi))

\* the squared distance of two points
Dist2(x1, y1, x2, y2) == (x1 - x2) * (x1 - x2) + (y1 - y2) * (y1 - y2)

\* PhysicsEngine._check_rect_circle_collision: the closest point of the
\* unrotated box to the circle's center is nearer than the radius
_check_rect_circle_collision(rect, circle) ==
    Dist2(Clamp(circle.x, rect.x - rect.width \div 2, rect.x + rect.width \div 2),
          Clamp(circle.y, rect.y - rect.height \div 2, rect.y + rect.height \div 2),
          circle.x, circle.y)
        < circle.radius * circle.radius

\* one component of direction * overlap; normalize() of the zero vector is zero
PushBy(d, overlap, magnitude) == IF magnitude = 0 THEN 0 ELSE RDiv(d * overlap, magnitude)

\* "Push body away from circle" and "Reflect velocity": reach is
\* circle.radius + max(half_w, half_h), magnitude the distance of the
\* centers, and overlap > 0 is decided on the squares
PushAway(b, circle, reach, magnitude) ==
    IF Dist2(b.x, b.y, circle.x, circle.y) < reach * reach
    THEN [b EXCEPT !.x = @ + PushBy(b.x - circle.x, reach - magnitude, magnitude),
                   !.y = @ + PushBy(b.y - circle.y, reach - magnitude, magnitude),
                   !.vx = Reflect(@, b.restitution_x10),
                   !.vy = Reflect(@, b.restitution_x10)]
    ELSE b

\* _check_collisions, one pass of "for circle in self.circles"
CircleCollision(b, circle) ==
    IF _check_rect_circle_collision(b, circle)
    THEN PushAway(b, circle, circle.radius + Max2(b.width \div 2, b.height \div 2),
                  Sqrt(Dist2(b.x, b.y, circle.x, circle.y)))
    ELSE b

\* _check_collisions, "Circle collisions": the circles in list order, each
\* seeing the body the one before it left
RECURSIVE CircleCollisions(_, _, _)
CircleCollisions(b, circles, i) ==
    IF i > Len(circles) THEN b
    ELSE CircleCollisions(CircleCollision(b, circles[i]), circles, i + 1)

\* _check_collisions up to the circles: the body the circle loop starts from
WallCollisions(b) == WallY(WallX(b, WORLD_WIDTH), WORLD_HEIGHT)

\* PhysicsEngine._check_collisions
_check_collisions(b, circles) == CircleCollisions(WallCollisions(b), circles, 1)

\* PhysicsEngine.step
PhysicsEngine_step(b, circles) == _check_collisions(RigidBody_update(b), circles)

\* PhysicsEngine.check_point_in_rect: the point in the rectangle's own frame,
\* compared before the division by TrigScale
check_point_in_rect(px, py, rect) ==
    /\ Abs((px - rect.x) * np_cos(rect.angle) + (py - rect.y) * np_sin(rect.angle))
           <= (rect.width \div 2) * TrigScale
    /\ Abs(-(px - rect.x) * np_sin(rect.angle) + (py - rect.y) * np_cos(rect.angle))
           <= (rect.height \div 2) * TrigScale

\* PhysicsEngine.get_circle_collisions, as the positions in the list
get_circle_collisions(b, circles) ==
    {i \in 1..Len(circles) : _check_rect_circle_collision(b, circles[i])}

(***************************************************************************)
(* Collision queries of the physics engine: a rover-sized body at three    *)
(* headings, and circles of two radii on a grid of centers around it.      *)
(***************************************************************************)
\* the grid of centers is (-PhysGridMax..PhysGridMax)^2, PhysGridStep apart
PhysGridMax == 12

PhysGridStep == 10 ^ 2

PhysCenter == Pt(6000, 5000)

PhysAngles == {0, 30 * MilliDeg, 90 * MilliDeg}

PhysRadii == {300, 400}

PhysBodies ==
    {RigidBody(PhysCenter[1], PhysCenter[2], 0, 0, a, 0, 800, 1200, 3) : a \in PhysAngles}

PhysCircles ==
    {PhysCircle(PhysCenter[1] + i * PhysGridStep, PhysCenter[2] + j * PhysGridStep, r, TRUE) :
        i, j \in -PhysGridMax..PhysGridMax, r \in PhysRadii}

PhysInit ==
    /\ EnvIdle
    /\ GeomIdle
    /\ ZoneIdle
    /\ RoverIdle
    /\ SimIdle
    /\ CtorIdle
    /\ ObsIdle
    /\ RectIdle
    /\ LaterIdle
    /\ pRect \in PhysBodies
    /\ pCircle \in PhysCircles
    /\ pDone = FALSE
    /\ pHit = FALSE

\* one call of _check_rect_circle_collision
CheckRectCircle ==
    /\ ~pDone
    /\ pDone' = TRUE
    /\ pHit' = _check_rect_circle_collision(pRect, pCircle)
    /\ UNCHANGED <<pRect, pCircle>>
    /\ UNCHANGED <<geomVars, zoneVars, roverVars, simVars, envVars, ctorVars, obsVars, rectVars, laterVars>>

PhysNext == CheckRectCircle

SpecPhys == PhysInit /\ [][PhysNext]_vars

\* the center of the circle is no farther than the radius from one of the
\* four edges of the rectangle with these corners
\* (the squares are taken in 5 mm units, a tenth of the grid step, in which
\* the centers, the radii and the corners at headings 0 and 90 are whole)
Coarse(p) == Pt(RDiv(p[1], 10), RDiv(p[2], 10))

NearAnEdge(corners, circle) ==
    \E i \in 1..4 :
        SegmentWithin(Coarse(Pt(circle.x, circle.y)), Coarse(corners[i]),
                      Coarse(corners[(i % 4) + 1]), RDiv(circle.radius, 10))

\* C13 as stated, the physics engine: the query is true exactly when the
\* center of the circle is inside the rectangle at its heading or no farther
\* than the radius from one of its four edges; a tangent circle collides.
C13_RectCircle ==
    pDone =>
        (pHit <=> \/ check_point_in_rect(pCircle.x, pCircle.y, pRect)
                  \/ NearAnEdge(get_corners(pRect), pCircle))

\* the circle touches the right edge of the unrotated rectangle from outside
TangentRight ==
    /\ pRect.angle = 0
    /\ pCircle.y = pRect.y
    /\ pCircle.x = pRect.x + pRect.width \div 2 + pCircle.radius

\* the circle lies beyond the long side of the rectangle turned by 90
\* degrees, farther from it than its radius, and nearer than its radius to
\* the unrotated box
ClearOfTurned ==
    /\ pRect.angle = 90 * MilliDeg
    /\ pCircle.x = pRect.x
    /\ pCircle.y > pRect.y + pRect.width \div 2 + pCircle.radius
    /\ pCircle.y < pRect.y + pRect.height \div 2 + pCircle.radius

\* C13 witness: the query of a tangent circle returned False.
C13_Witness == pDone /\ TangentRight /\ ~pHit

\* C13, what the physics engine does: at heading 0 and but for the tangent
\* circles, the query agrees with the statement
C13_UnrotatedApart ==
    (/\ pDone
     /\ pRect.angle = 0
     /\ Dist2(Clamp(pCircle.x, pRect.x - pRect.width \div 2, pRect.x + pRect.width \div 2),
              Clamp(pCircle.y, pRect.y - pRect.height \div 2, pRect.y + pRect.height \div 2),
              pCircle.x, pCircle.y) # pCircle.radius * pCircle.radius)
    => (pHit <=> \/ check_point_in_rect(pCircle.x, pCircle.y, pRect)
                 \/ NearAnEdge(get_corners(pRect), pCircle))

\* C13, the rotation: a circle clear of the turned rectangle is reported
C13_TurnedWitness == pDone /\ ClearOfTurned /\ pHit

(***************************************************************************)
(* python_training/env/lunabotics_env.py: LunaboticsEnv                    *)
(***************************************************************************)
\* env_config: the numbers of rocks, craters and orbs a reset creates
\* (MLConfig: 8, 8 and 15)
num_rocks == 1

num_craters == 1

num_orbs == 1

MAX_SPEED == 2

MAX_ANGULAR_VELOCITY == 3

MAX_EPISODE_STEPS == 1000

MAX_ORBS_HELD == 15

\* ROVER_WIDTH and ROVER_LENGTH of MLConfig (0.4 m and 0.6 m), the width and
\* the height of the rover's RigidBody
rover_width == 800

rover_length == 1200

ORB_RADIUS == 150

GRAB_ZONE_DISTANCE == 1000

\* step(): force * dt at linear_mult = 1, as a velocity: the force is
\* direction * (linear_mult * max_speed) * 10.0
ForceStep == (MAX_SPEED * 10 * 10 * PerMeter * VelScale) \div (FPS * FPS)

\* step(): torque * dt at angular_mult = 1, as an angular velocity: the
\* torque is angular_mult * max_angular_velocity * 5.0 radians
TorqueStep ==
    (((MAX_ANGULAR_VELOCITY * 5 * 180 * MilliDeg * AVelScale) \div (FPS * FPS)) * 10000)
        \div 31416

\* step(), "Apply rover controls"
Control(b, linear_mult, angular_mult) ==
    apply_torque(
        apply_force(b, linear_mult * RDiv(ForceStep * np_cos(b.angle), TrigScale),
                       linear_mult * RDiv(ForceStep * np_sin(b.angle), TrigScale)),
        angular_mult * TorqueStep)

\* Orb: position and physics_body.position are one Vec2 at reset and are
\* assigned together afterwards, so an orb has one position
Orb(id, x, y, radius) ==
    [id |-> id, x |-> x, y |-> y, radius |-> radius, is_picked_up |-> FALSE]

\* orb.physics_body
physics_body(orb) == PhysCircle(orb.x, orb.y, orb.radius, FALSE)

\* self.physics.circles: rocks, craters and the circles of the orbs, in the
\* order reset() adds them; a deposit removes the circles of its orbs
circles(rs, cs, os) == rs \o cs \o [i \in 1..Len(os) |-> physics_body(os[i])]

IdsOf(held) == {held[i] : i \in 1..Len(held)}

\* _update_held_orbs
_update_held_orbs(os, held, b) ==
    [i \in 1..Len(os) |->
        IF os[i].id \in IdsOf(held) THEN [os[i] EXCEPT !.x = b.x, !.y = b.y] ELSE os[i]]

\* _grab_orbs, the test of one orb: nearer than the grab distance and less
\* than 90 degrees off the heading (atan2(0, 0) is 0)
InGrabZone(orb, b) ==
    /\ Dist2(b.x, b.y, orb.x, orb.y) < GRAB_ZONE_DISTANCE * GRAB_ZONE_DISTANCE
    /\ IF orb.x = b.x /\ orb.y = b.y THEN np_cos(b.angle) > 0
       ELSE (orb.x - b.x) * np_cos(b.angle) + (orb.y - b.y) * np_sin(b.angle) > 0

\* _grab_orbs with max_orbs_held given: the orbs in list order until
\* max_orbs_held are held
RECURSIVE _grab_orbsUpTo(_, _, _, _, _)
_grab_orbsUpTo(os, held, b, i, max_orbs_held) ==
    IF i > Len(os) \/ Len(held) >= max_orbs_held THEN [orbs |-> os, held |-> held]
    ELSE IF ~os[i].is_picked_up /\ InGrabZone(os[i], b)
         THEN _grab_orbsUpTo([os EXCEPT ![i].is_picked_up = TRUE], Append(held, os[i].id),
                             b, i + 1, max_orbs_held)
         ELSE _grab_orbsUpTo(os, held, b, i + 1, max_orbs_held)

\* _grab_orbs
_grab_orbs(os, held, b, i) == _grab_orbsUpTo(os, held, b, i, MAX_ORBS_HELD)

\* _release_orbs
_release_orbs(os, held) ==
    [orbs |-> [i \in 1..Len(os) |->
                  IF os[i].id \in IdsOf(held) THEN [os[i] EXCEPT !.is_picked_up = FALSE]
                  ELSE os[i]],
     held |-> <<>>]

\* step(), "Handle dig action"
Dig(os, held, b, dig_action) ==
    IF dig_action
    THEN IF Len(held) = 0 THEN _grab_orbs(os, held, b, 1) ELSE _release_orbs(os, held)
    ELSE [orbs |-> os, held |-> held]

KeepOrb(held, orb) == orb.id \notin IdsOf(held)

\* A slip in the deposit: the deposited orbs are counted and stay in the list
DepositOrbsKept(oh, zone) ==
    IF Len(oh.held) > 0 /\ zone = "TARGET_BERM"
    THEN [orbs |-> oh.orbs, held |-> <<>>, deposited |-> Len(oh.held)]
    ELSE [orbs |-> oh.orbs, held |-> oh.held, deposited |-> 0]

\* step(), "Check for orb deposit in target berm"
Deposit(oh, zone) ==
    IF Len(oh.held) > 0 /\ zone = "TARGET_BERM"
    THEN [orbs |-> SelectSeq(oh.orbs, LAMBDA orb : KeepOrb(oh.held, orb)),
          held |-> <<>>, deposited |-> Len(oh.held)]
    ELSE [orbs |-> oh.orbs, held |-> oh.held, deposited |-> 0]

\* _get_current_state
_get_current_state(b, zone, held, deposited, rs, cs) ==
    [rover_x |-> b.x, rover_y |-> b.y, current_zone |-> zone,
     num_orbs_held |-> Len(held), orbs_deposited |-> deposited,
     collided_with_obstacle |-> get_circle_collisions(b, rs \o cs) # {},
     collided_with_wall |-> (b.x < 0 \/ b.x > WORLD_WIDTH \/ b.y < 0 \/ b.y > WORLD_HEIGHT)]

\* what the physics step went through: the body RigidBody.update left (u),
\* the body after the wall tests (w), which the circle loop of
\* _check_collisions starts from, and what that loop meets there
Trace(n, u, w, rs, cs, os) ==
    [n |-> n, integrated |-> u, afterWalls |-> w,
     hit |-> get_circle_collisions(w, rs \o cs) # {},
     centerInside |-> \E i \in 1..Len(rs \o cs) :
                          check_point_in_rect((rs \o cs)[i].x, (rs \o cs)[i].y, w),
     orbHit |-> \E i \in 1..Len(os) : _check_rect_circle_collision(w, physics_body(os[i]))]

\* reset(): the rover's RigidBody at the starting position
StartBody == RigidBody(2000, 8000, 0, 0, 0, 0, rover_width, rover_length, 3)

(***************************************************************************)
(* The RL environment driven through reset() and step().  A behaviour      *)
(* starts right after a reset(), or at a point of an episode that the      *)
(* program reaches from a reset by the steps named with it.                *)
(***************************************************************************)
\* step() calls the model follows from its first state or from a reset()
MaxEnvSteps == 2

\* _random_position_in_zone(*zone_obstacle) and the radii uniform(0.15, 0.2)
\* and uniform(0.15, 0.25): the values the model draws
RockPoints == {Pt(9000, 2000), Pt(9400, 2000)}

RockRadii == {300, 350}

CraterPoints == {Pt(9000, 2000), Pt(11000, 6000)}

CraterRadii2 == {300, 450}

\* _random_position_in_zone(*zone_excavation)
OrbPoints == {Pt(2000, 2000), Pt(4000, 5000)}

RockCircles == {PhysCircle(p[1], p[2], r, TRUE) : p \in RockPoints, r \in RockRadii}

CraterCircles == {PhysCircle(p[1], p[2], r, TRUE) : p \in CraterPoints, r \in CraterRadii2}

\* the world reset() leaves
World(b, rs, cs, os, n) == [body |-> b, rocks |-> rs, craters |-> cs, orbs |-> os, steps |-> n]

ResetWorlds ==
    {World(StartBody, rs, cs, [i \in 1..num_orbs |-> Orb(i, ps[i][1], ps[i][2], ORB_RADIUS)], 0) :
        rs \in [1..num_rocks -> RockCircles],
        cs \in [1..num_craters -> CraterCircles],
        ps \in [1..num_orbs -> OrbPoints]}

\* the rocks, craters and orbs of the episodes below, but for the one rock
\* the rover meets
FarCraters == [i \in 1..num_craters |-> PhysCircle(11000, 6000, 450, TRUE)]

FarOrbs == [i \in 1..num_orbs |-> Orb(i, 2000, 2000, ORB_RADIUS)]

RocksWith(rock) == [i \in 1..num_rocks |-> IF i = 1 THEN rock ELSE PhysCircle(9000, 2000, 350, TRUE)]

\* after 33 steps of action (1, 0, 0) from reset(): 10.1 m/s along +x, the
\* first rock at (4.31, 4.0), radius 0.15, 0.168 m ahead of the front edge
FastApproach ==
    World(RigidBody(7884, 8000, 337100, 0, 0, 0, rover_width, rover_length, 3),
          RocksWith(PhysCircle(8620, 8000, 300, TRUE)), FarCraters, FarOrbs, 33)

\* after 16 steps of action (-1, 0.2, 0) from reset(): backing into the left
\* wall at 5.1 m/s with a heading of 6.3 degrees
LeftWall ==
    World(RigidBody(534, 7973, -170220, -6015, 6302, 73227, rover_width, rover_length, 3),
          RocksWith(PhysCircle(9000, 2000, 350, TRUE)), FarCraters, FarOrbs, 16)

\* after 17 steps of action (1, 0, 0) and 15 of (-1, 0, 0) from reset():
\* 0.22 m/s along +x, the first rock at (2.77, 4.434), radius 0.19, off the
\* front left corner
CornerContact ==
    World(RigidBody(4954, 8000, 7376, 0, 0, 0, rover_width, rover_length, 3),
          RocksWith(PhysCircle(5540, 8868, 380, TRUE)), FarCraters, FarOrbs, 32)

\* the orbs of an episode: the first one given, the others far from the rover
OrbsWith(orb) == [i \in 1..num_orbs |-> IF i = 1 THEN orb ELSE Orb(i, 2000, 2000, ORB_RADIUS)]

\* after 60 steps from reset() that turn the rover to a heading of -90.4
\* degrees and drive it down at 4.2 m/s: the first orb at (1.0, 3.0), 0.507 m
\* ahead of the center
OrbAhead ==
    World(RigidBody(1997, 7014, -561, -139487, -90395, -2322, rover_width, rover_length, 3),
          RocksWith(PhysCircle(9000, 2000, 350, TRUE)), FarCraters,
          OrbsWith(Orb(1, 2000, 6000, ORB_RADIUS)), 60)

\* the same episode one step((1, 0, 1)) later: the orb has been grabbed and
\* is where it lay
OrbHeld ==
    World(RigidBody(1996, 6864, -634, -149845, -90418, -2311, rover_width, rover_length, 3),
          RocksWith(PhysCircle(9000, 2000, 350, TRUE)), FarCraters,
          OrbsWith([Orb(1, 2000, 6000, ORB_RADIUS) EXCEPT !.is_picked_up = TRUE]), 61)

\* the same episode after 76 more steps that carry the orb across the
\* obstacle zone: the rover at (7.415, 1.353) in the construction zone, turning
\* right at 373 degrees per second, the berm 0.2 m below it
OrbCarried ==
    World(RigidBody(14831, 2707, -2746, 2236, -46039, -621442, rover_width, rover_length, 3),
          RocksWith(PhysCircle(9000, 2000, 350, TRUE)), FarCraters,
          OrbsWith([Orb(1, 14831, 2707, ORB_RADIUS) EXCEPT !.is_picked_up = TRUE]), 137)

\* after MAX_EPISODE_STEPS - 1 steps of action (0, 0, 0) from reset(): the
\* rover has not moved
LongWait ==
    World(StartBody, RocksWith(PhysCircle(9000, 2000, 350, TRUE)), FarCraters, FarOrbs,
          MAX_EPISODE_STEPS - 1)

Episodes == {FastApproach, LeftWall, CornerContact, OrbAhead, OrbHeld, OrbCarried, LongWait}

IsPickedUp(orb) == orb.is_picked_up

\* self.orbs_held of a world: the orbs that are picked up, in list order
HeldOf(os) ==
    [i \in 1..Len(SelectSeq(os, IsPickedUp)) |-> SelectSeq(os, IsPickedUp)[i].id]

\* the state reset() leaves, and the one it had left when the episode began
Enter(w) ==
    /\ body = w.body
    /\ rocks = w.rocks
    /\ craters = w.craters
    /\ orbs = w.orbs
    /\ orbs_held = HeldOf(w.orbs)
    /\ orbs_deposited = 0
    /\ current_zone = IF w.steps = 0 THEN "STARTING" ELSE _get_zone(Pt(w.body.x, w.body.y))
    /\ steps = w.steps
    /\ previous_state =
           _get_current_state(w.body,
               IF w.steps = 0 THEN "STARTING" ELSE _get_zone(Pt(w.body.x, w.body.y)),
               HeldOf(w.orbs), 0, w.rocks, w.craters)
    /\ terminated = FALSE
    /\ truncated = FALSE
    /\ trace = Trace(0, w.body, w.body, w.rocks, w.craters, w.orbs)

EnvInit ==
    /\ GeomIdle
    /\ ZoneIdle
    /\ RoverIdle
    /\ SimIdle
    /\ PhysIdle
    /\ CtorIdle
    /\ ObsIdle
    /\ RectIdle
    /\ LaterIdle
    /\ \E w \in ResetWorlds \cup Episodes : Enter(w)

\* reset()
Reset ==
    /\ \E w \in ResetWorlds :
        /\ body' = w.body
        /\ rocks' = w.rocks
        /\ craters' = w.craters
        /\ orbs' = w.orbs
        /\ previous_state' = _get_current_state(w.body, "STARTING", <<>>, 0, w.rocks, w.craters)
        /\ trace' = Trace(0, w.body, w.body, w.rocks, w.craters, w.orbs)
    /\ orbs_held' = <<>>
    /\ orbs_deposited' = 0
    /\ current_zone' = "STARTING"
    /\ steps' = 0
    /\ terminated' = FALSE
    /\ truncated' = FALSE
    /\ UNCHANGED <<geomVars, zoneVars, roverVars, simVars, physVars, ctorVars, obsVars, rectVars, laterVars>>

\* A slip: the circle of a collision is moved as well
CircleAfterPushed(w, circle) ==
    IF _check_rect_circle_collision(w, circle)
    THEN [circle EXCEPT !.x = @ + Sign(circle.x - w.x), !.y = @ + Sign(circle.y - w.y)]
    ELSE circle

\* a rock or crater after physics.step(): step() iterates over self.bodies
\* only, and the circle loop of _check_collisions assigns to body.position
\* and body.velocity, never to the circle
CircleAfter(w, circle) == circle

\* A slip in the comparison: truncated one step late
truncatedPast(n) == n > MAX_EPISODE_STEPS

\* step(), "truncated = self.steps >= MLConfig.MAX_EPISODE_STEPS"
truncatedAt(n) == n >= MAX_EPISODE_STEPS

\* step() from "Get current state" to the return: u is the body
\* RigidBody.update left, w the body the circle loop started from, b the body
\* the physics step left, oh the orbs
StepDone(u, w, b, zone, oh) ==
    /\ body' = b
    /\ current_zone' = zone
    /\ orbs' = oh.orbs
    /\ orbs_held' = oh.held
    /\ orbs_deposited' = orbs_deposited + oh.deposited
    /\ previous_state' =
           _get_current_state(b, zone, oh.held, orbs_deposited + oh.deposited, rocks, craters)
    /\ steps' = steps + 1
    /\ terminated' = (orbs_deposited + oh.deposited >= num_orbs)
    /\ truncated' = truncatedAt(steps + 1)
    /\ trace' = Trace(trace.n + 1, u, w, rocks, craters, orbs)
    /\ rocks' = [i \in 1..Len(rocks) |-> CircleAfter(w, rocks[i])]
    /\ craters' = [i \in 1..Len(craters) |-> CircleAfter(w, craters[i])]

\* step() from "Update zone" to the deposit
StepMoved(u, w, b, dig_action) ==
    StepDone(u, w, b, _get_zone(Pt(b.x, b.y)),
             Deposit(Dig(_update_held_orbs(orbs, orbs_held, b), orbs_held, b, dig_action),
                     _get_zone(Pt(b.x, b.y))))

\* self.physics.step(self.dt), from the circle loop of _check_collisions
StepWalled(u, w, dig_action) ==
    StepMoved(u, w, CircleCollisions(w, circles(rocks, craters, orbs), 1), dig_action)

\* self.physics.step(self.dt), from the wall tests of _check_collisions
StepIntegrated(u, dig_action) == StepWalled(u, WallCollisions(u), dig_action)

\* step(action), action = (linear_mult, angular_mult, dig_action > 0.5)
Step(linear_mult, angular_mult, dig_action) ==
    /\ trace.n < MaxEnvSteps
    /\ ~terminated
    /\ ~truncated
    /\ StepIntegrated(RigidBody_update(Control(body, linear_mult, angular_mult)), dig_action)
    /\ UNCHANGED <<geomVars, zoneVars, roverVars, simVars, physVars, ctorVars, obsVars, rectVars, laterVars>>

EnvNext ==
    \/ Reset
    \/ \E linear_mult \in {-1, 0, 1}, angular_mult \in {-1, 0, 1}, dig_action \in BOOLEAN :
           Step(linear_mult, angular_mult, dig_action)

SpecEnv == EnvInit /\ [][EnvNext]_vars

\* a step() has been made since the first state or the last reset()
Stepped == trace.n > 0

\* the flag of the state step() has just handed to the reward calculator
Reported == previous_state.collided_with_obstacle

\* C12 for LunaboticsEnv.reset: the call leaves num_rocks rocks, num_craters
\* craters and num_orbs orbs, all of them drawn by this call, nothing held,
\* and the rover at (1.0, 4.0) with heading 0 and no velocity.
C12_EnvReset ==
    [][steps' = 0 =>
          /\ body' = StartBody
          /\ body'.vx = 0 /\ body'.vy = 0 /\ body'.angle = 0 /\ body'.angular_velocity = 0
          /\ World(body', rocks', craters', orbs', 0) \in ResetWorlds
          /\ orbs_held' = <<>>]_vars

\* C4 as stated: whenever the center of a rock or crater lies inside the
\* rover's rectangle when the step checks collisions, the step reports a
\* collision with an obstacle.
C4_CenterReported == (Stepped /\ trace.centerInside) => Reported

\* C4 witness: a step met a rock's center inside the rectangle and reported
\* no collision.
C4_Witness == Stepped /\ trace.centerInside /\ trace.hit /\ ~Reported

\* C5 as stated: when the rover overlaps a rock or crater during step() (and
\* no orb), its position and velocity after the obstacle check are those of
\* integration and wall resolution.
C5_NoPushOut ==
    (Stepped /\ trace.hit /\ ~trace.orbHit) =>
        /\ body.x = trace.afterWalls.x
        /\ body.y = trace.afterWalls.y
        /\ body.vx = trace.afterWalls.vx
        /\ body.vy = trace.afterWalls.vy

\* C5 witness: a step met a rock, moved the rover away from it and reversed
\* its velocity.
C5_Witness ==
    /\ Stepped
    /\ trace.hit
    /\ ~trace.orbHit
    /\ body.x < trace.afterWalls.x
    /\ body.vx < 0
    /\ trace.afterWalls.vx > 0

\* the corners of the body lie in [0, WORLD_WIDTH] x [0, WORLD_HEIGHT]
CornersInside(b) ==
    \A i \in 1..4 : /\ 0 <= get_corners(b)[i][1] /\ get_corners(b)[i][1] <= WORLD_WIDTH
                    /\ 0 <= get_corners(b)[i][2] /\ get_corners(b)[i][2] <= WORLD_HEIGHT

\* C6 as stated: after every step(), whatever the heading, the four corners
\* of the rover's rectangle lie inside the arena.
C6_CornersInside == Stepped => CornersInside(body)

\* C6 witness: a step clamped the center to the left wall and left a corner
\* of the turned rectangle outside.
C6_Witness ==
    /\ Stepped
    /\ body.x = body.width \div 2
    /\ body.angle # 0
    /\ ~CornersInside(body)

\* the wall tests of _check_collisions found the body at or beyond a wall
WallReached(u) ==
    \/ u.x - u.width \div 2 < 0
    \/ u.x + u.width \div 2 > WORLD_WIDTH
    \/ u.y - u.height \div 2 < 0
    \/ u.y + u.height \div 2 > WORLD_HEIGHT

\* C14 as stated: a step() in which the rover reaches or crosses an arena
\* wall has collided_with_wall true in the state of that step.
C14_WallReported ==
    (Stepped /\ WallReached(trace.integrated)) => previous_state.collided_with_wall

\* C14 witness: a step put the rover back inside the left wall, reversed its
\* velocity and left collided_with_wall false.
C14_Witness ==
    /\ Stepped
    /\ WallReached(trace.integrated)
    /\ trace.afterWalls.x = body.width \div 2
    /\ trace.afterWalls.vx > 0
    /\ ~previous_state.collided_with_wall

\* C14, what step() does: no step of the episodes followed sets the flag
C14_NeverReported == Stepped => ~previous_state.collided_with_wall

\* C15: a step() leaves the list of rocks and the list of craters as they
\* were: the same circles, each with the center and radius it had.
C15_ObstaclesStatic ==
    [][steps' # 0 => (rocks' = rocks /\ craters' = craters)]_vars

\* C15 witness: a step in which the rover met a rock and was moved away from
\* it, the rock being where the reset had put it.
C15_Witness ==
    /\ Stepped
    /\ trace.hit
    /\ body.x # trace.afterWalls.x
    /\ rocks \in {w.rocks : w \in ResetWorlds \cup Episodes}

\* the body a step() integrates: the rover after the force and the torque
\* of one of the control inputs
Controlled == {Control(body, lm, am) : lm \in {-1, 0, 1}, am \in {-1, 0, 1}}

\* C19 for RigidBody.update: the integration of a step() moves the center by
\* the linear velocity the controls left and keeps that velocity.
C19_VelocityKept ==
    [][steps' # 0 =>
          \E c \in Controlled :
              /\ trace'.integrated = RigidBody_update(c)
              /\ trace'.integrated.vx = c.vx
              /\ trace'.integrated.vy = c.vy
              /\ trace'.integrated.x = c.x + RDiv(c.vx, VelScale)
              /\ trace'.integrated.y = c.y + RDiv(c.vy, VelScale)]_vars

\* C19 witness: the first step() after a reset, full throttle: the velocity
\* after the integration is the one the force gave, damped, and the center
\* has moved by the damped velocity.
C19_Witness ==
    /\ Stepped
    /\ Control(StartBody, 1, 0).vx > 0
    /\ trace.integrated.vx = Damp(Control(StartBody, 1, 0).vx, StartBody.friction_x10)
    /\ trace.integrated.vx < Control(StartBody, 1, 0).vx
    /\ trace.integrated.x = StartBody.x + RDiv(trace.integrated.vx, VelScale)

\* C19, what RigidBody.update does: the linear velocity is damped by
\* (1 - friction * dt) like the angular velocity, and the center moves by the
\* damped velocity.
C19_VelocityDamped ==
    [][steps' # 0 =>
          \E c \in Controlled :
              /\ trace'.integrated = RigidBody_update(c)
              /\ trace'.integrated.vx = Damp(c.vx, c.friction_x10)
              /\ trace'.integrated.vy = Damp(c.vy, c.friction_x10)
              /\ trace'.integrated.angular_velocity = Damp(c.angular_velocity, c.friction_x10)
              /\ trace'.integrated.x = c.x + RDiv(trace'.integrated.vx, VelScale)
              /\ trace'.integrated.y = c.y + RDiv(trace'.integrated.vy, VelScale)]_vars

\* C24: a step() leaves the rover where the control input, the integration,
\* the walls and the rocks and craters put it; the circles of the orbs, held
\* or not, take no part.
C24_OrbsNeverPush ==
    [][steps' # 0 =>
          body' = CircleCollisions(trace'.afterWalls, rocks \o craters, 1)]_vars

\* C24 witness: a step() with an orb held, whose circle lay where the rover
\* was a step earlier, has moved the rover away from that place
C24_Witness ==
    /\ Stepped
    /\ orbs_held # <<>>
    /\ trace.orbHit
    /\ ~trace.hit
    /\ \E i \in 1..Len(orbs) : orbs[i].is_picked_up /\ orbs[i].x = body.x /\ orbs[i].y = body.y
    /\ Dist2(body.x, body.y, trace.afterWalls.x, trace.afterWalls.y) > 500 * 500

\* a step() that met the circle of an orb that is not held
C24_FreeOrbWitness ==
    /\ Stepped
    /\ orbs_held = <<>>
    /\ trace.orbHit
    /\ ~trace.hit
    /\ body # trace.afterWalls

\* C24, the part that holds: while the rover meets no circle of an orb, the
\* rocks and craters alone decide after the walls
C24_NoOrbNoPush ==
    [][(steps' # 0 /\ ~trace'.orbHit) =>
          body' = CircleCollisions(trace'.afterWalls, rocks \o craters, 1)]_vars

\* C8 as stated, the RL environment: a step() in which the rover collides with
\* a rock or crater ends the episode.
C8_CollisionEnds == (Stepped /\ (trace.hit \/ Reported)) => (terminated \/ truncated)

\* C8 witness: a step reported a collision with an obstacle and returned
\* neither terminated nor truncated.
C8_Witness == Stepped /\ trace.hit /\ Reported /\ ~terminated /\ ~truncated

(***************************************************************************)
(* Construction of a LunaboticsEnv: the arguments of the call, the         *)
(* attributes and keys __init__, reset() and step() look up, and the       *)
(* exception the first missing one raises.                                 *)
(***************************************************************************)
\* the keys of the dict MLConfig.get_env_config() returns
EnvConfigKeys ==
    {"world_width", "world_height", "rover_length", "rover_width", "max_speed",
     "max_angular_velocity", "dt", "frustum_depth", "frustum_far_width", "num_orbs",
     "num_rocks", "num_craters", "orb_radius", "max_orbs_held", "grab_zone_distance"}

\* the keys __init__ reads with env_config[...]
InitKeys ==
    {"world_width", "world_height", "rover_length", "rover_width", "max_speed",
     "max_angular_velocity", "dt", "frustum_depth", "frustum_far_width",
     "grab_zone_distance", "max_orbs_held"}

\* the keys reset() reads with self.env_config[...]
ResetKeys == {"num_rocks", "num_craters", "num_orbs", "orb_radius"}

\* the key step() reads with self.env_config[...]
StepKeys == {"num_orbs"}

\* the attributes of the class RewardCalculator that lunabotics_env.py
\* imports from rewards.reward_calculator
RewardCalculatorAttrs ==
    {"__init__", "calculate_reward", "_distance_to_point", "get_default_config"}

\* "if env_config is None: env_config = MLConfig.get_env_config()"
EffectiveKeys(env_config) == IF env_config.given THEN env_config.keys ELSE EnvConfigKeys

\* LunaboticsEnv.__init__: the exception it raises, or "none".  With
\* reward_config None it evaluates RewardCalculator.config_from_mlconfig
\* before it reads a key of env_config.
InitRaises(env_config, reward_config) ==
    IF reward_config = "None" /\ "config_from_mlconfig" \notin RewardCalculatorAttrs
    THEN "AttributeError"
    ELSE IF ~(InitKeys \subseteq EffectiveKeys(env_config)) THEN "KeyError"
    ELSE "none"

\* the arguments followed: no env_config, the full dict, and the full dict
\* less one key
CtorEnvConfigs ==
    {NoEnvConfig, EnvConfig(EnvConfigKeys)}
        \cup {EnvConfig(EnvConfigKeys \ {k}) : k \in EnvConfigKeys}

CtorStages == {1, 4, 7}

CtorInit ==
    /\ GeomIdle
    /\ ZoneIdle
    /\ RoverIdle
    /\ SimIdle
    /\ EnvIdle
    /\ PhysIdle
    /\ ObsIdle
    /\ RectIdle
    /\ LaterIdle
    /\ cEnvConfig \in CtorEnvConfigs
    /\ cRewardConfig \in {"None", "dict"}
    /\ cRewardStage \in CtorStages
    /\ cPhase = "new"
    /\ cRaised = "none"

\* LunaboticsEnv(env_config, reward_config, reward_stage)
Construct ==
    /\ cPhase = "new"
    /\ cPhase' = "__init__"
    /\ cRaised' = InitRaises(cEnvConfig, cRewardConfig)
    /\ UNCHANGED <<cEnvConfig, cRewardConfig, cRewardStage>>
    /\ UNCHANGED <<geomVars, zoneVars, roverVars, simVars, envVars, physVars, obsVars, rectVars, laterVars>>

\* env.reset() on the object the constructor returned
CallReset ==
    /\ cPhase \in {"__init__", "step"}
    /\ cRaised = "none"
    /\ cPhase' = "reset"
    /\ cRaised' = IF ResetKeys \subseteq EffectiveKeys(cEnvConfig) THEN "none" ELSE "KeyError"
    /\ UNCHANGED <<cEnvConfig, cRewardConfig, cRewardStage>>
    /\ UNCHANGED <<geomVars, zoneVars, roverVars, simVars, envVars, physVars, obsVars, rectVars, laterVars>>

\* env.step(action) after a reset()
CallStep ==
    /\ cPhase = "reset"
    /\ cRaised = "none"
    /\ cPhase' = "step"
    /\ cRaised' = IF StepKeys \subseteq EffectiveKeys(cEnvConfig) THEN "none" ELSE "KeyError"
    /\ UNCHANGED <<cEnvConfig, cRewardConfig, cRewardStage>>
    /\ UNCHANGED <<geomVars, zoneVars, roverVars, simVars, envVars, physVars, obsVars, rectVars, laterVars>>

CtorNext == Construct \/ CallReset \/ CallStep

SpecCtor == CtorInit /\ [][CtorNext]_vars

\* the call LunaboticsEnv(): no env_config, no reward_config
NoArguments == cEnvConfig = NoEnvConfig /\ cRewardConfig = "None" /\ cRewardStage = 4

\* C16 as stated: LunaboticsEnv() with no arguments raises nothing, and
\* neither do reset() and step() on its result.
C16_ConstructsByDefault == (NoArguments /\ cPhase # "new") => cRaised = "none"

\* C16 witness: the constructor called with no arguments has raised
\* AttributeError.
C16_Witness == NoArguments /\ cPhase = "__init__" /\ cRaised = "AttributeError"

\* C16, with a reward_config and no env_config: the constructor, reset() and
\* step() raise nothing
C16_WithRewardConfig ==
    (cEnvConfig = NoEnvConfig /\ cRewardConfig = "dict") => cRaised = "none"

\* C16, a step reached after LunaboticsEnv(reward_config = dict) and reset()
C16_SteppedWitness ==
    cEnvConfig = NoEnvConfig /\ cRewardConfig = "dict" /\ cPhase = "step" /\ cRaised = "none"

(***************************************************************************)
(* lunabotics_env.py: the observation.  An entry is a whole number of      *)
(* thousandths; an angle is a whole number of degrees before it is         *)
(* normalized.                                                             *)
(***************************************************************************)
MAX_DETECTED_OBSTACLES == 5

OBS_ROVER_STATE == 10

OBS_NEAREST_ORB == 3

OBS_OBSTACLES == 15

OBS_CONSTRUCTION == 2

OBS_DIM == OBS_ROVER_STATE + OBS_NEAREST_ORB + OBS_OBSTACLES + OBS_CONSTRUCTION

ObsScale == 10 ^ 3

\* the largest whole number of degrees d in lo..hi with tan d <= ay / ax
RECURSIVE AtanBisect(_, _, _, _)
AtanBisect(ax, ay, lo, hi) ==
    IF lo >= hi THEN lo
    ELSE IF ay * Cos(Deg((lo + hi + 1) \div 2)) >= ax * Sin(Deg((lo + hi + 1) \div 2))
         THEN AtanBisect(ax, ay, (lo + hi + 1) \div 2, hi)
         ELSE AtanBisect(ax, ay, lo, (lo + hi + 1) \div 2 - 1)

\* the angle of the quadrant of (x, y), from the angle q of (|x|, |y|)
AtanQuadrant(y, x, q) ==
    IF x >= 0 /\ y >= 0 THEN q
    ELSE IF x < 0 /\ y >= 0 THEN 180 - q
    ELSE IF x < 0 THEN q - 180
    ELSE -q

\* math.atan2(y, x), in degrees
atan2(y, x) ==
    IF x = 0 /\ y = 0 THEN 0 ELSE AtanQuadrant(y, x, AtanBisect(Abs(x), Abs(y), 0, 90))

\* math.atan2(math.sin(a), math.cos(a)): degrees brought into (-180, 180]
NormalizeDeg(d) == ((d + 179) % 360) - 179

\* the angle to (x, y) relative to the heading of the body, in degrees
RelativeAngle(b, x, y) ==
    NormalizeDeg(atan2(y - b.y, x - b.x) - RDiv(b.angle, MilliDeg))

\* Vec2.magnitude of a difference of positions
Magnitude(dx, dy) == Sqrt(dx * dx + dy * dy)

\* math.sqrt(world_width ** 2 + world_height ** 2)
max_dist == Magnitude(WORLD_WIDTH, WORLD_HEIGHT)

\* min(dist / max_dist, 1.0)
NormalizedDist(d) == Min2(RDiv(d * ObsScale, max_dist), ObsScale)

\* relative_angle / math.pi
NormalizedAngle(d) == RDiv(d * ObsScale, 180)

\* 1.0 if ... else 0.0
Flag(c) == IF c THEN ObsScale ELSE 0

\* the speed of the body over max_speed, clipped to [-1, 1]: the velocity is
\* the displacement of a step in 1/VelScale units, 10 * PerMeter to the meter;
\* the magnitude is taken in tenths of a unit
NormalizedSpeed(b) ==
    Min2(RDiv(FPS * ObsScale * Magnitude(b.vx \div 100, b.vy \div 100),
              10 * 10 * PerMeter * MAX_SPEED),
         ObsScale)

\* the positions in the list of the orbs that are not picked up
Available(os) == {i \in 1..Len(os) : ~os[i].is_picked_up}

\* the first of the available orbs at the least distance
NearestOrb(b, os) ==
    CHOOSE i \in Available(os) :
        \A j \in Available(os) :
            \/ Dist2(b.x, b.y, os[i].x, os[i].y) < Dist2(b.x, b.y, os[j].x, os[j].y)
            \/ (Dist2(b.x, b.y, os[i].x, os[i].y) = Dist2(b.x, b.y, os[j].x, os[j].y) /\ i <= j)

\* the three entries of an orb at this distance and relative angle
OrbInfo(dist, angle) ==
    << NormalizedDist(dist), NormalizedAngle(angle),
       Flag(dist < GRAB_ZONE_DISTANCE /\ Abs(angle) < 90) >>

\* _get_nearest_orb_info
_get_nearest_orb_info(b, os) ==
    IF Available(os) = {} THEN <<0, 0, 0>>
    ELSE OrbInfo(Magnitude(b.x - os[NearestOrb(b, os)].x, b.y - os[NearestOrb(b, os)].y),
                 RelativeAngle(b, os[NearestOrb(b, os)].x, os[NearestOrb(b, os)].y))

\* obstacle_data.sort(key = distance): the place of obstacle j after the
\* sort, which keeps the order of equal distances
SortedPlace(b, obstacle_data, j) ==
    1 + Cardinality({m \in 1..Len(obstacle_data) :
            \/ Dist2(b.x, b.y, obstacle_data[m].x, obstacle_data[m].y)
                   < Dist2(b.x, b.y, obstacle_data[j].x, obstacle_data[j].y)
            \/ /\ Dist2(b.x, b.y, obstacle_data[m].x, obstacle_data[m].y)
                      = Dist2(b.x, b.y, obstacle_data[j].x, obstacle_data[j].y)
               /\ m < j})

\* the obstacle at place i of the sorted list
NthNearest(b, obstacle_data, i) ==
    obstacle_data[CHOOSE j \in 1..Len(obstacle_data) : SortedPlace(b, obstacle_data, j) = i]

\* the three entries of one obstacle: distance, angle, radius over 0.5 m
ObstacleEntries(b, o) ==
    << NormalizedDist(Magnitude(b.x - o.x, b.y - o.y)),
       NormalizedAngle(RelativeAngle(b, o.x, o.y)),
       Min2(RDiv(o.radius * ObsScale, PerMeter * 5), ObsScale) >>

\* the three entries of slot i: an obstacle, or zeros
ObstacleSlot(b, obstacle_data, i) ==
    IF i <= Len(obstacle_data) THEN ObstacleEntries(b, NthNearest(b, obstacle_data, i))
    ELSE <<0, 0, 0>>

\* A slip: only the obstacle_data present are listed, no slot is filled with zeros
RECURSIVE _get_obstacle_infoPresent(_, _, _)
_get_obstacle_infoPresent(b, obstacle_data, i) ==
    IF i > MAX_DETECTED_OBSTACLES \/ i > Len(obstacle_data) THEN <<>>
    ELSE ObstacleEntries(b, NthNearest(b, obstacle_data, i))
             \o _get_obstacle_infoPresent(b, obstacle_data, i + 1)

\* _get_obstacle_info, from slot i on
RECURSIVE _get_obstacle_info(_, _, _)
_get_obstacle_info(b, obstacle_data, i) ==
    IF i > MAX_DETECTED_OBSTACLES THEN <<>>
    ELSE ObstacleSlot(b, obstacle_data, i) \o _get_obstacle_info(b, obstacle_data, i + 1)

\* self.construction_center
construction_center ==
    Pt((ZONE_CONSTRUCTION[1] + ZONE_CONSTRUCTION[2]) \div 2,
       (ZONE_CONSTRUCTION[3] + ZONE_CONSTRUCTION[4]) \div 2)

\* _get_construction_zone_info
_get_construction_zone_info(b) ==
    << NormalizedDist(Magnitude(b.x - construction_center[1], b.y - construction_center[2])),
       NormalizedAngle(RelativeAngle(b, construction_center[1], construction_center[2])) >>

\* _get_observation, entries [0] to [9]
RoverEntries(b, held, zone) ==
    << RDiv(b.x * ObsScale, WORLD_WIDTH),
       RDiv(b.y * ObsScale, WORLD_HEIGHT),
       RDiv((b.angle % (360 * MilliDeg)) * ObsScale, 360 * MilliDeg),
       NormalizedSpeed(b),
       Flag(Len(held) > 0),
       RDiv(Len(held) * ObsScale, MAX_ORBS_HELD),
       Flag(zone = "EXCAVATION"),
       Flag(zone = "CONSTRUCTION"),
       Flag(zone = "TARGET_BERM"),
       Flag(zone = "OBSTACLE") >>

\* _get_observation
_get_observation(w) ==
    RoverEntries(w.body, w.orbs_held, w.current_zone)
        \o _get_nearest_orb_info(w.body, w.orbs)
        \o _get_obstacle_info(w.body, w.rocks \o w.craters, 1)
        \o _get_construction_zone_info(w.body)

(***************************************************************************)
(* Observations: the rover at three poses, among 0..MaxObsRocks rocks and  *)
(* 0..MaxObsCraters craters and up to two orbs, one of them held or not.   *)
(***************************************************************************)
MaxObsRocks == 4

MaxObsCraters == 3

\* rock i and crater i of the worlds observed, in the obstacle zone
ObsRock(i) == PhysCircle(5000 + 1700 * i, 1000 + 1900 * (i % 5), 300 + 10 * (i % 10), TRUE)

ObsCrater(i) == PhysCircle(13000 - 1500 * i, 9000 - 2100 * (i % 4), 400 + 10 * (i % 10), TRUE)

ObsBodies == {StartBody, FastApproach.body, LeftWall.body}

\* no orb; one orb, free or held; two orbs, free
ObsOrbs ==
    { [orbs |-> <<>>, held |-> <<>>],
      [orbs |-> <<Orb(1, 2400, 7600, ORB_RADIUS)>>, held |-> <<>>],
      [orbs |-> <<[Orb(1, 2000, 8000, ORB_RADIUS) EXCEPT !.is_picked_up = TRUE]>>,
       held |-> <<1>>],
      [orbs |-> <<Orb(1, 4000, 5000, ORB_RADIUS), Orb(2, 2000, 2000, ORB_RADIUS)>>,
       held |-> <<>>] }

ObsWorlds ==
    { [body |-> b,
       rocks |-> [i \in 1..nr |-> ObsRock(i)],
       craters |-> [i \in 1..nc |-> ObsCrater(i)],
       orbs |-> oh.orbs,
       orbs_held |-> oh.held,
       current_zone |-> _get_zone(Pt(b.x, b.y))] :
        b \in ObsBodies, nr \in 0..MaxObsRocks, nc \in 0..MaxObsCraters, oh \in ObsOrbs }

ObsInit ==
    /\ GeomIdle
    /\ ZoneIdle
    /\ RoverIdle
    /\ SimIdle
    /\ EnvIdle
    /\ PhysIdle
    /\ CtorIdle
    /\ RectIdle
    /\ LaterIdle
    /\ oWorld \in ObsWorlds
    /\ oDone = FALSE
    /\ oObs = <<>>

\* one call of _get_observation, as reset() and step() make before returning
Observe ==
    /\ ~oDone
    /\ oDone' = TRUE
    /\ oObs' = _get_observation(oWorld)
    /\ UNCHANGED oWorld
    /\ UNCHANGED <<geomVars, zoneVars, roverVars, simVars, envVars, physVars, ctorVars, rectVars, laterVars>>

ObsNext == Observe

SpecObs == ObsInit /\ [][ObsNext]_vars

\* the number of rocks and craters of the world observed
NumObstacles == Len(oWorld.rocks) + Len(oWorld.craters)

\* the entries of obstacle slot i (1..MAX_DETECTED_OBSTACLES) of the list
SlotOf(obs, i) ==
    SubSeq(obs, OBS_ROVER_STATE + OBS_NEAREST_ORB + 3 * (i - 1) + 1,
                OBS_ROVER_STATE + OBS_NEAREST_ORB + 3 * i)

C17_FilledWitness ==
    /\ oDone
    /\ NumObstacles = 2
    /\ SlotOf(oObs, 2)[3] > 0
    /\ SlotOf(oObs, 3) = <<0, 0, 0>>

(***************************************************************************)
(* shapes.py: one PhysicsRectangle driven through the methods that change  *)
(* it: force, torque_right, torque_left, set_pos, rotate_about, update.    *)
(* Velocities are in length units per update.                              *)
(***************************************************************************)
\* calls made on one rectangle
MaxRectOps == 3

\* the per-axis speed limit of PhysicsObject.force
FORCE_LIMIT == 20

\* if (r := abs(v/20)) > 1: v /= r
Limited(v) == IF v > FORCE_LIMIT THEN FORCE_LIMIT ELSE IF v < -FORCE_LIMIT THEN -FORCE_LIMIT ELSE v

\* A slip in the limit: the velocity is scaled as a vector, so the component
\* within the limit shrinks with the one beyond it
forceScaled(r, mag, dir) ==
    LET ux == r.vx + RDiv(mag * Cos(dir), TrigScale * r.mass)
        uy == r.vy + RDiv(mag * Sin(dir), TrigScale * r.mass)
    IN  [r EXCEPT !.vx = Limited(ux),
                  !.vy = IF Abs(ux) > FORCE_LIMIT
                         THEN Limited(RDiv(uy * FORCE_LIMIT, Abs(ux)))
                         ELSE Limited(uy)]

\* PhysicsObject.force
force(r, mag, dir) ==
    [r EXCEPT !.vx = Limited(@ + RDiv(mag * Cos(dir), TrigScale * r.mass)),
              !.vy = Limited(@ + RDiv(mag * Sin(dir), TrigScale * r.mass))]

\* Rectangle.set_pos: "if x:" skips None and 0 alike, so 0 stands for both
set_pos(r, x, y, angle) ==
    Recalculate([r EXCEPT !.x = IF x # 0 THEN x ELSE @,
                          !.y = IF y # 0 THEN y ELSE @,
                          !.angle = IF angle # 0 THEN angle ELSE @])

\* the arguments of the calls
RectForces == {<<400, Deg(0)>>, <<800, Deg(90)>>, <<2400, Deg(180)>>, <<2400, Deg(30)>>}

RectPositions == {<<0, 0, 0>>, <<300, 0, 0>>, <<0, 400, Deg(30)>>}

RectPivots == {<<ROVER_X, ROVER_Y, Deg(90)>>, <<275, 200, Deg(30)>>, <<275, 200, 0>>}

RectInit ==
    /\ GeomIdle
    /\ ZoneIdle
    /\ RoverIdle
    /\ SimIdle
    /\ EnvIdle
    /\ PhysIdle
    /\ CtorIdle
    /\ ObsIdle
    /\ LaterIdle
    /\ theRect = Rover
    /\ rectOps = 0
    /\ rectLast = [op |-> "__init__", before |-> Rover]

\* one call: the rectangle becomes after, and the call is remembered
RectCall(op, after) ==
    /\ rectOps < MaxRectOps
    /\ theRect' = after
    /\ rectOps' = rectOps + 1
    /\ rectLast' = [op |-> op, before |-> theRect]
    /\ UNCHANGED <<geomVars, zoneVars, roverVars, simVars, envVars, physVars, ctorVars, obsVars, laterVars>>

RectForce(mag, dir) == RectCall("force", force(theRect, mag, dir))

RectTorqueRight(t) == RectCall("torque_right", torque_right(theRect, t))

RectTorqueLeft(t) == RectCall("torque_left", torque_left(theRect, t))

RectSetPos(x, y, angle) == RectCall("set_pos", set_pos(theRect, x, y, angle))

RectRotateAbout(x, y, da) == RectCall("rotate_about", rotate_about(theRect, x, y, da))

RectUpdate == RectCall("update", update(theRect))

RectNext ==
    \/ \E f \in RectForces : RectForce(f[1], f[2])
    \/ \E t \in {-50, 50} : RectTorqueRight(t)
    \/ \E t \in {-50, 50} : RectTorqueLeft(t)
    \/ \E p \in RectPositions : RectSetPos(p[1], p[2], p[3])
    \/ \E p \in RectPivots : RectRotateAbout(p[1], p[2], p[3])
    \/ RectUpdate

SpecRect == RectInit /\ [][RectNext]_vars

\* the stored corners are the corners of the center, angle and dimensions
Fresh(r) == r.corners = calculate_corners(r.width, r.height, r.x, r.y, r.angle)

\* C18: after set_pos, rotate_about and update the stored corners are those
\* computed from the center, the angle and the dimensions, and the corners
\* update() reads were not stale when it read them.
C18_CornersFresh ==
    /\ rectLast.op \in {"set_pos", "rotate_about", "update"} => Fresh(theRect)
    /\ rectLast.op = "update" => Fresh(rectLast.before)

\* rotate_about has turned the rectangle and left the corners where they were
C18_Witness ==
    /\ rectLast.op = "rotate_about"
    /\ theRect.angle # rectLast.before.angle
    /\ theRect.corners = rectLast.before.corners
    /\ ~Fresh(theRect)

\* C18, the part that holds: set_pos and update end with calculate_corners
C18_RecalculatedFresh == rectLast.op \in {"set_pos", "update"} => Fresh(theRect)

\* an update() that took its midpoints from corners rotate_about left behind
C18_StaleReadWitness == rectLast.op = "update" /\ ~Fresh(rectLast.before)

\* the rectangle update() has when it translates: after the drag and the
\* two rotations about the midpoints of the corners read before them
Turned(r) ==
    RotateBoth(drag(r), Midpoint(r.corners[2], r.corners[3]),
                        Midpoint(r.corners[1], r.corners[4]))

\* C19 for PhysicsRectangle: update() moves the center it has after the two
\* rotations by (vx, vy) and keeps (vx, vy); only force changes (vx, vy), and
\* force changes nothing else.
C19_ShapesTranslate ==
    /\ rectLast.op = "update" =>
          /\ theRect.x = Turned(rectLast.before).x + rectLast.before.vx
          /\ theRect.y = Turned(rectLast.before).y + rectLast.before.vy
    /\ rectLast.op # "force" =>
          (theRect.vx = rectLast.before.vx /\ theRect.vy = rectLast.before.vy)
    /\ rectLast.op = "force" =>
          /\ theRect.omega_right = rectLast.before.omega_right
          /\ theRect.omega_left = rectLast.before.omega_left
          /\ theRect.x = rectLast.before.x /\ theRect.y = rectLast.before.y

\* an update() of a rectangle that has a velocity and no angular velocity
C19_ShapesWitness ==
    /\ rectLast.op = "update"
    /\ rectLast.before.vx # 0
    /\ rectLast.before.omega_right = 0 /\ rectLast.before.omega_left = 0
    /\ theRect.x = rectLast.before.x + rectLast.before.vx
    /\ theRect.vx = rectLast.before.vx

\* C21 for PhysicsRectangle: update() applies the drag first and turns by the
\* accumulators the drag left: the heading changes by (1 - .2) times the sum
\* of omega_right and omega_left of before the update.
C21_ShapesHeading ==
    rectLast.op = "update" =>
        /\ theRect.omega_right = drag(rectLast.before).omega_right
        /\ theRect.omega_left = drag(rectLast.before).omega_left
        /\ 5 * (theRect.angle - rectLast.before.angle) =
               4 * (rectLast.before.omega_right + rectLast.before.omega_left)

\* an update() of a rectangle with both accumulators set
C21_ShapesWitness ==
    /\ rectLast.op = "update"
    /\ rectLast.before.omega_right # 0
    /\ rectLast.before.omega_left # 0
    /\ theRect.angle # rectLast.before.angle

(***************************************************************************)
(* Specifications added after the ones above leave the variables of those  *)
(* alone, and the other way round.                                         *)
(***************************************************************************)
EarlierIdle ==
    /\ GeomIdle
    /\ ZoneIdle
    /\ RoverIdle
    /\ SimIdle
    /\ EnvIdle
    /\ PhysIdle
    /\ CtorIdle
    /\ ObsIdle
    /\ RectIdle

(***************************************************************************)
(* physics.py: one RigidBody driven through apply_torque(torque, dt) and   *)
(* update(dt) with dt = 1 / bRate.  Here a velocity is per second: lengths *)
(* per second and millidegrees per second.                                 *)
(***************************************************************************)
\* calls made on one body
MaxBodyOps == 3

\* the dt values: 1/30 and 1/60 (MLConfig.DT)
BodyRates == {30, FPS}

\* RigidBody.apply_torque: angular_velocity += torque * dt
apply_torqueAt(b, torque, rate) ==
    [b EXCEPT !.angular_velocity = @ + RDiv(torque, rate)]

\* v * (1.0 - friction * dt)
DampAt(v, friction_x10, rate) == RDiv(v * (10 * rate - friction_x10), 10 * rate)

\* RigidBody.update: friction, then the position and the angle move by the
\* velocities friction left, times dt, and the angle is normalized
RigidBody_updateAt(b, rate) ==
    LET vx == DampAt(b.vx, b.friction_x10, rate)
        vy == DampAt(b.vy, b.friction_x10, rate)
        av == DampAt(b.angular_velocity, b.friction_x10, rate)
    IN  [b EXCEPT !.vx = vx, !.vy = vy, !.angular_velocity = av,
                  !.x = @ + RDiv(vx, rate), !.y = @ + RDiv(vy, rate),
                  !.angle = NormalizeAngle(@ + RDiv(av, rate))]

\* bodies at rest and turning, with the friction of the rover (0.3) and the
\* default of the dataclass (0.5)
BodyStarts ==
    {RigidBody(2000, 8000, vx, 0, 0, av, rover_width, rover_length, f) :
        vx \in {0, 600}, av \in {0, 36000, -90000}, f \in {3, 5}}

BodyTorques == {-180000, 360000}

BodyInit ==
    /\ EarlierIdle
    /\ DegenIdle
    /\ ConnIdle
    /\ WaitIdle
    /\ bBody \in BodyStarts
    /\ bRate \in BodyRates
    /\ bOps = 0
    /\ bLast = [op |-> "__init__", before |-> bBody]

BodyCall(op, after) ==
    /\ bOps < MaxBodyOps
    /\ bBody' = after
    /\ bOps' = bOps + 1
    /\ bLast' = [op |-> op, before |-> bBody]
    /\ UNCHANGED <<bRate, earlierVars, degenVars, connVars, waitVars>>

BodyTorque(torque) == BodyCall("apply_torque", apply_torqueAt(bBody, torque, bRate))

BodyUpdate == BodyCall("update", RigidBody_updateAt(bBody, bRate))

BodyNext ==
    \/ \E torque \in BodyTorques : BodyTorque(torque)
    \/ BodyUpdate

SpecBody == BodyInit /\ [][BodyNext]_vars

\* the change of heading of an update, in millidegrees
Turn(before, after) == NormalizeAngle(after.angle - before.angle)

\* C21 for RigidBody: an update first damps the angular velocity and then
\* turns the heading by the damped angular velocity, (1 - d) times the one
\* before the update, with d = friction whatever dt is: the same update at
\* another dt turns the heading by the same angle.
C21_BodyHeading ==
    bLast.op = "update" =>
        /\ 10 * Turn(bLast.before, bBody) =
               (10 - bLast.before.friction_x10) * bLast.before.angular_velocity
        /\ \A rate \in BodyRates :
               Turn(bLast.before, RigidBody_updateAt(bLast.before, rate)) =
                   Turn(bLast.before, bBody)

\* C21 witness: an update of a turning body at dt = 1/60 that has turned it
\* by less than the update at dt = 1/30 turns it by
C21_Witness ==
    /\ bLast.op = "update"
    /\ bRate = FPS
    /\ bLast.before.angular_velocity > 0
    /\ Turn(bLast.before, bBody) > 0
    /\ Turn(bLast.before, bBody) < Turn(bLast.before, RigidBody_updateAt(bLast.before, 30))

\* C21, what RigidBody.update does: the heading turns by the angular velocity
\* after the friction, times dt, and the friction factor is 1 - friction * dt
C21_BodyDamped ==
    bLast.op = "update" =>
        /\ bBody.angular_velocity =
               DampAt(bLast.before.angular_velocity, bLast.before.friction_x10, bRate)
        /\ Turn(bLast.before, bBody) = RDiv(bBody.angular_velocity, bRate)

(***************************************************************************)
(* shapes.py and physics.py on degenerate input: what a call raises, next  *)
(* to what it returns.  A division raises ZeroDivisionError when its       *)
(* divisor is zero; np.float64 division returns nan instead.               *)
(***************************************************************************)
Returned(answer) == [raised |-> "none", answer |-> answer, vector |-> <<0, 0>>]

ReturnedVec2(x, y) == [raised |-> "none", answer |-> FALSE, vector |-> <<x, y>>]

Raised(exception) == [raised |-> exception, answer |-> FALSE, vector |-> <<0, 0>>]

\* A slip: the test of the length is left out
ZeroLengthNever(axis) == FALSE

\* rectangle_overlap: "if length == 0: continue", length = math.hypot(*axis)
ZeroLength(axis) == axis[1] * axis[1] + axis[2] * axis[2] = 0

\* rectangle_overlap, one axis: "continue", the axis divided by its length,
\* or the return of False
AxisOutcome(c1, c2, axis) ==
    IF ZeroLength(axis) THEN "continue"
    ELSE IF axis[1] * axis[1] + axis[2] * axis[2] = 0 THEN "ZeroDivisionError"
    ELSE IF AxisSeparates(c1, c2, axis) THEN "return" ELSE "continue"

\* Rectangle.rectangle_overlap: the axes in order, up to the first that
\* raises or returns
rectangle_overlapOutcome(c1, c2) ==
    LET axes == get_axes(c1) \o get_axes(c2)
        ends == {i \in 1..Len(axes) : AxisOutcome(c1, c2, axes[i]) # "continue"}
    IN  IF ends = {} THEN Returned(TRUE)
        ELSE IF AxisOutcome(c1, c2, axes[SetMin(ends)]) = "return" THEN Returned(FALSE)
        ELSE Raised("ZeroDivisionError")

\* v + 1e-12 is zero for v = -1e-12 only, which no sum of squares and no
\* difference of coordinates of the model's lengths is
PlusEpsilonIsZero(v) == FALSE

\* Rectangle.contains, one edge: the division is evaluated when the edge
\* straddles the horizontal of the point
EdgeRaises(p1, p2, point) ==
    /\ (p1[2] > point[2]) # (p2[2] > point[2])
    /\ PlusEpsilonIsZero(p2[2] - p1[2])

\* distance_point_to_segment: the division by vx * vx + vy * vy + 1e-12
SegmentRaises(p1, p2) ==
    PlusEpsilonIsZero((p2[1] - p1[1]) * (p2[1] - p1[1]) + (p2[2] - p1[2]) * (p2[2] - p1[2]))

\* circle_overlap, one edge
SegmentOutcome(corners, circle, i) ==
    IF SegmentRaises(corners[i], corners[(i % 4) + 1]) THEN "ZeroDivisionError"
    ELSE IF SegmentWithin(Pt(circle.x, circle.y), corners[i], corners[(i % 4) + 1],
                          circle.radius)
         THEN "return" ELSE "continue"

\* Rectangle.circle_overlap: contains(), then the edges in order
circle_overlapOutcome(corners, circle) ==
    LET ends == {i \in 1..4 : SegmentOutcome(corners, circle, i) # "continue"}
    IN  IF \E i \in 1..4 : EdgeRaises(corners[i], corners[(i % 4) + 1], Pt(circle.x, circle.y))
        THEN Raised("ZeroDivisionError")
        ELSE IF contains(corners, Pt(circle.x, circle.y)) THEN Returned(TRUE)
        ELSE IF ends = {} THEN Returned(FALSE)
        ELSE IF SegmentOutcome(corners, circle, SetMin(ends)) = "return" THEN Returned(TRUE)
        ELSE Raised("ZeroDivisionError")

\* Vec2.normalize, the components in 1/TrigScale: "if mag == 0: return
\* Vec2(0, 0)", and self.x / mag, self.y / mag with mag an np.float64
normalize(v) ==
    LET mag == Magnitude(v[1], v[2])
    IN  IF mag = 0 THEN ReturnedVec2(0, 0)
        ELSE ReturnedVec2(RDiv(v[1] * TrigScale, mag), RDiv(v[2] * TrigScale, mag))

\* the arguments: rectangles without width, without height and without
\* either, circles without radius, and the zero vector, next to proper ones
DegenDims == {<<0, 0>>, <<0, 300>>, <<150, 0>>, <<150, 300>>}

DegenPoints == {Pt(200, 200), Pt(275, 200), Pt(275, 350), Pt(600, 600)}

DegenRectangles ==
    {Rectangle(d[1], d[2], p[1], p[2], a) :
        d \in DegenDims, p \in DegenPoints, a \in {Deg(0), Deg(30)}}

DegenCircles == {Circle(r, p[1], p[2]) : r \in {0, 30}, p \in DegenPoints}

DegenVectors == {<<0, 0>>, <<3, 4>>, <<0, -5>>, <<-6, 8>>}

\* normalize has no shape among its arguments
NoShape == Circle(0, 0, 0)

DegenCalls ==
    {[fn |-> "rectangle_overlap", self |-> a, other |-> b, v |-> <<0, 0>>] :
         a \in DegenRectangles, b \in DegenRectangles}
    \cup {[fn |-> "circle_overlap", self |-> a, other |-> c, v |-> <<0, 0>>] :
              a \in DegenRectangles, c \in DegenCircles}
    \cup {[fn |-> "normalize", self |-> NoShape, other |-> NoShape, v |-> v] :
              v \in DegenVectors}

DegenInit ==
    /\ EarlierIdle
    /\ BodyIdle
    /\ ConnIdle
    /\ WaitIdle
    /\ dCall \in DegenCalls
    /\ dDone = FALSE
    /\ dOutcome = Returned(FALSE)

DegenCall(fn, outcome) ==
    /\ ~dDone
    /\ dCall.fn = fn
    /\ dDone' = TRUE
    /\ dOutcome' = outcome
    /\ UNCHANGED <<dCall, earlierVars, bodyVars, connVars, waitVars>>

CallRectangleOverlap ==
    DegenCall("rectangle_overlap",
              rectangle_overlapOutcome(dCall.self.corners, dCall.other.corners))

CallCircleOverlap ==
    DegenCall("circle_overlap", circle_overlapOutcome(dCall.self.corners, dCall.other))

CallNormalize == DegenCall("normalize", normalize(dCall.v))

DegenNext == CallRectangleOverlap \/ CallCircleOverlap \/ CallNormalize

SpecDegen == DegenInit /\ [][DegenNext]_vars

\* a rectangle with a corner pair that coincides
HasZeroEdge(r) == r.width = 0 \/ r.height = 0

\* C23: no call raises; the rectangle test answers as the separating-axis
\* test over the axes that have a length, the circle test answers for a
\* circle of radius 0 and for edges of length 0 (the distance to the edge's
\* point), and normalize of the zero vector is the zero vector.
C23_NeverRaises ==
    dDone =>
        /\ dOutcome.raised = "none"
        /\ dCall.fn = "rectangle_overlap" =>
               dOutcome.answer = rectangle_overlap(dCall.self.corners, dCall.other.corners)
        /\ dCall.fn = "circle_overlap" =>
               dOutcome.answer = circle_overlap(dCall.self.corners, dCall.other)
        /\ (dCall.fn = "normalize" /\ dCall.v = <<0, 0>>) => dOutcome.vector = <<0, 0>>

\* C23 witness: the rectangle test called on a rectangle without width and
\* height, all of whose axes have length zero, has answered
C23_Witness ==
    /\ dDone
    /\ dCall.fn = "rectangle_overlap"
    /\ dCall.self.width = 0 /\ dCall.self.height = 0
    /\ HasZeroEdge(dCall.other)
    /\ dOutcome.raised = "none"

\* the circle test on a circle of radius 0 at the end of a rectangle without
\* width: the distance to the edges of length 0 there is 0
C23_CircleWitness ==
    /\ dDone
    /\ dCall.fn = "circle_overlap"
    /\ dCall.self.width = 0 /\ dCall.self.height > 0 /\ dCall.self.angle = 0
    /\ dCall.other.radius = 0
    /\ dCall.other.x = dCall.self.x
    /\ dCall.other.y = dCall.self.y + dCall.self.height \div 2
    /\ dOutcome = Returned(TRUE)

\* the same circle in the middle of that rectangle
C23_MiddleWitness ==
    /\ dDone
    /\ dCall.fn = "circle_overlap"
    /\ dCall.self.width = 0 /\ dCall.self.height > 0 /\ dCall.self.angle = 0
    /\ dCall.other.radius = 0
    /\ dCall.other.x = dCall.self.x /\ dCall.other.y = dCall.self.y
    /\ dOutcome = Returned(FALSE)

\* normalize of the zero vector
C23_ZeroVectorWitness ==
    dDone /\ dCall.fn = "normalize" /\ dCall.v = <<0, 0>> /\ dOutcome = ReturnedVec2(0, 0)

(***************************************************************************)
(* websocket_server.py: BrowserEnvironmentBridge.handle_connection and     *)
(* keepalive_ping.  The handlers are coroutines of one event loop, so the  *)
(* code between two awaits of a handler runs without interruption and the  *)
(* handlers interleave at their awaits only.  An action is one such        *)
(* stretch of code.                                                        *)
(***************************************************************************)
MaxConnections == 3

Handlers == 1 .. MaxConnections

ConnInit ==
    /\ EarlierIdle
    /\ BodyIdle
    /\ DegenIdle
    /\ WaitIdle
    /\ websocket = 0
    /\ connected = FALSE
    /\ ping_task = 0
    /\ hPc = [h \in Handlers |-> "idle"]
    /\ hOpen = [h \in Handlers |-> TRUE]
    /\ hTarget = [h \in Handlers |-> 0]
    /\ pingState = [h \in Handlers |-> "none"]
    /\ newest = 0

ConnRest == <<earlierVars, bodyVars, degenVars, waitVars>>

\* Task.cancel(): a task that has already ended stays as it ended
cancel(states, task) ==
    IF task # 0 /\ states[task] = "running"
    THEN [states EXCEPT ![task] = "cancelled"]
    ELSE states

\* handle_connection, "self.websocket = websocket" to create_task: the handler
\* installs its websocket and starts its keepalive task
SetUp(h, states) ==
    /\ websocket' = h
    /\ connected' = TRUE
    /\ ping_task' = h
    /\ pingState' = [states EXCEPT ![h] = "running"]
    /\ newest' = h
    /\ hPc' = [hPc EXCEPT ![h] = "serving"]

\* handle_connection is entered for a new browser connection: with a live
\* connection it awaits the close of that connection's websocket, otherwise it
\* sets itself up at once
Accept(h) ==
    /\ hPc[h] = "idle"
    /\ \A g \in Handlers : g < h => hPc[g] # "idle"
    /\ IF websocket # 0 /\ connected
       THEN /\ hTarget' = [hTarget EXCEPT ![h] = websocket]
            /\ hPc' = [hPc EXCEPT ![h] = "closing"]
            /\ UNCHANGED <<websocket, connected, ping_task, pingState, newest>>
       ELSE /\ SetUp(h, pingState)
            /\ UNCHANGED hTarget
    /\ UNCHANGED <<hOpen, ConnRest>>

\* a websocket closes: its close() completed, or the browser went away
ConnectionCloses(h) ==
    /\ hPc[h] \in {"serving", "handling"}
    /\ hOpen[h]
    /\ hOpen' = [hOpen EXCEPT ![h] = FALSE]
    /\ UNCHANGED <<websocket, connected, ping_task, hPc, hTarget, pingState, newest, ConnRest>>

\* handle_connection after "await self.websocket.close()": the task found in
\* self.ping_task is cancelled and the handler sets itself up
Replace(h) ==
    /\ hPc[h] = "closing"
    /\ ~hOpen[hTarget[h]]
    /\ SetUp(h, cancel(pingState, ping_task))
    /\ UNCHANGED <<hOpen, hTarget, ConnRest>>

\* "async for message in websocket" yields a message and the handler awaits
\* handle_message
Receive(h) ==
    /\ hPc[h] = "serving"
    /\ hOpen[h]
    /\ hPc' = [hPc EXCEPT ![h] = "handling"]
    /\ UNCHANGED <<websocket, connected, ping_task, hOpen, hTarget, pingState, newest, ConnRest>>

\* handle_message returns and the handler is back at its "async for"
Handled(h) ==
    /\ hPc[h] = "handling"
    /\ hPc' = [hPc EXCEPT ![h] = "serving"]
    /\ UNCHANGED <<websocket, connected, ping_task, hOpen, hTarget, pingState, newest, ConnRest>>

\* the "finally" of handle_connection, entered when the handler's websocket
\* is closed: the flags are cleared only when self.websocket is still the
\* handler's own, the task in self.ping_task is cancelled whoever created it
Finish(h) ==
    /\ hPc[h] = "serving"
    /\ ~hOpen[h]
    /\ IF websocket = h
       THEN connected' = FALSE /\ websocket' = 0
       ELSE UNCHANGED <<websocket, connected>>
    /\ pingState' = cancel(pingState, ping_task)
    /\ ping_task' = 0
    /\ hPc' = [hPc EXCEPT ![h] = "done"]
    /\ UNCHANGED <<hOpen, hTarget, newest, ConnRest>>

\* keepalive_ping wakes from its sleep and ends: the loop condition fails, or
\* the ping of a closed websocket raises and the task breaks out
keepalive_ping(h) ==
    /\ pingState[h] = "running"
    /\ \/ ~connected
       \/ websocket = 0
       \/ (websocket # 0 /\ ~hOpen[websocket])
    /\ pingState' = [pingState EXCEPT ![h] = "finished"]
    /\ UNCHANGED <<websocket, connected, ping_task, hPc, hOpen, hTarget, newest, ConnRest>>

ConnNext ==
    \E h \in Handlers :
        \/ Accept(h)
        \/ ConnectionCloses(h)
        \/ Replace(h)
        \/ Receive(h)
        \/ Handled(h)
        \/ Finish(h)
        \/ keepalive_ping(h)

SpecConn == ConnInit /\ [][ConnNext]_vars

\* the newest connection replaced another one, its websocket is open and its
\* handler is in its message loop
Replacing(h) ==
    /\ newest = h
    /\ hTarget[h] # 0
    /\ hPc[h] \in {"serving", "handling"}
    /\ hOpen[h]

\* C25: while the connection that replaced another one is open, the bridge
\* keeps connected = true, websocket = the new websocket, and the new
\* connection's keepalive task running, whatever the superseded handlers do
C25_NotDisturbed ==
    \A h \in Handlers :
        Replacing(h) =>
            /\ connected
            /\ websocket = h
            /\ ping_task = h
            /\ pingState[h] = "running"

\* C25 witness: the superseded handler was inside handle_message when its
\* websocket closed, ran its "finally" after the new handler's setup and
\* cancelled the new connection's keepalive task
C25_Witness ==
    /\ Replacing(2)
    /\ hTarget[2] = 1
    /\ hPc[1] = "done"
    /\ connected /\ websocket = 2
    /\ ping_task = 0
    /\ pingState[2] = "cancelled"
    /\ pingState[1] = "cancelled"

\* C25, the guarded half: the flags of the replacing connection are kept
C25_FlagsKept ==
    \A h \in Handlers : Replacing(h) => connected /\ websocket = h

\* C25, the cleanup that runs first: a superseded handler that finished
\* before the new handler's setup left everything to the new connection
C25_EarlyCleanupWitness ==
    /\ Replacing(2)
    /\ hPc[1] = "done"
    /\ ping_task = 2
    /\ pingState[2] = "running"

(***************************************************************************)
(* browser_env.py: BrowserLunarRoverEnv.reset, step, _wait_for_observation *)
(* and _handle_observation.  train_single_env.py runs the bridge's server  *)
(* in a thread of its own, so _handle_observation runs in the server       *)
(* thread while reset() and step() run in the caller's thread, and the     *)
(* statements of the two interleave.                                       *)
(***************************************************************************)
MaxRequests == 3

Requests == 1 .. MaxRequests

Pending == [how |-> "pending", kind |-> "none", obs |-> 0]

WaitInit ==
    /\ EarlierIdle
    /\ BodyIdle
    /\ DegenIdle
    /\ ConnIdle
    /\ waiting_for_response = FALSE
    /\ current_obs = 0
    /\ wPc = "idle"
    /\ wSeq = 0
    /\ wRequest = 0
    /\ wReply = 0
    /\ wHandledAt = [k \in Requests |-> "no"]
    /\ wOutcome = [k \in Requests |-> Pending]

WaitRest == <<earlierVars, bodyVars, degenVars, connVars>>

\* reset() and step() up to the return of "await self.bridge.request_reset()"
\* or "await self.bridge.send_action(action)": the message is on its way
Send(kind) ==
    /\ wPc = "idle"
    /\ wSeq < MaxRequests
    /\ wSeq' = wSeq + 1
    /\ wRequest' = wSeq + 1
    /\ wOutcome' = [wOutcome EXCEPT ![wSeq + 1].kind = kind]
    /\ wPc' = "sent"
    /\ UNCHANGED <<waiting_for_response, current_obs, wReply, wHandledAt, WaitRest>>

request_reset == Send("reset")

send_action == Send("step")

\* the browser answers the request with a "reset_complete" or "state" message
BrowserAnswers ==
    /\ wRequest # 0
    /\ wReply' = wRequest
    /\ wRequest' = 0
    /\ UNCHANGED <<waiting_for_response, current_obs, wPc, wSeq, wHandledAt, wOutcome, WaitRest>>

\* _handle_observation, called by handle_message in the server thread
_handle_observation ==
    /\ wReply # 0
    /\ current_obs' = wReply
    /\ waiting_for_response' = FALSE
    /\ wHandledAt' = [wHandledAt EXCEPT ![wReply] = wPc]
    /\ wReply' = 0
    /\ UNCHANGED <<wPc, wSeq, wRequest, wOutcome, WaitRest>>

\* _wait_for_observation, first statement: the caller marks itself as waiting
MarkWaiting ==
    /\ wPc = "sent"
    /\ waiting_for_response' = TRUE
    /\ wPc' = "waiting"
    /\ UNCHANGED <<current_obs, wSeq, wRequest, wReply, wHandledAt, wOutcome, WaitRest>>

\* _wait_for_observation, the loop ends: the flag was cleared and the call
\* returns self.current_obs
ReturnObservation ==
    /\ wPc = "waiting"
    /\ ~waiting_for_response
    /\ wOutcome' = [wOutcome EXCEPT ![wSeq].how = "returned", ![wSeq].obs = current_obs]
    /\ wPc' = "idle"
    /\ UNCHANGED <<waiting_for_response, current_obs, wSeq, wRequest, wReply, wHandledAt, WaitRest>>

\* _wait_for_observation, the timeout: the flag stayed set for 5 seconds, with
\* neither a request nor an answer left on its way, and RuntimeError is raised
RaiseDeadlock ==
    /\ wPc = "waiting"
    /\ waiting_for_response
    /\ wRequest = 0
    /\ wReply = 0
    /\ wOutcome' = [wOutcome EXCEPT ![wSeq].how = "raised"]
    /\ wPc' = "idle"
    /\ UNCHANGED <<waiting_for_response, current_obs, wSeq, wRequest, wReply, wHandledAt, WaitRest>>

WaitNext ==
    \/ request_reset
    \/ send_action
    \/ BrowserAnswers
    \/ _handle_observation
    \/ MarkWaiting
    \/ ReturnObservation
    \/ RaiseDeadlock

SpecWait == WaitInit /\ [][WaitNext]_vars

\* C26: a call whose answer the server thread has handled returns that
\* answer: it never ends in the deadlock timeout
C26_AnswerReturned ==
    \A k \in Requests :
        (wHandledAt[k] # "no" /\ wOutcome[k].how # "pending") =>
            (wOutcome[k].how = "returned" /\ wOutcome[k].obs = k)

\* C26 witness: the answer to a step() was handled between the send and the
\* caller's "self.waiting_for_response = True", and the call raised
C26_Witness ==
    \E k \in Requests :
        /\ wOutcome[k].kind = "step"
        /\ wHandledAt[k] = "sent"
        /\ current_obs >= k
        /\ wOutcome[k].how = "raised"

\* C26, the same for reset()
C26_ResetWitness ==
    \E k \in Requests :
        /\ wOutcome[k].kind = "reset"
        /\ wHandledAt[k] = "sent"
        /\ wOutcome[k].how = "raised"

\* C26, the answer handled after the caller marked itself: it is returned
C26_HandledWhileWaiting ==
    \A k \in Requests :
        (wHandledAt[k] = "waiting" /\ wOutcome[k].how # "pending") =>
            (wOutcome[k].how = "returned" /\ wOutcome[k].obs = k)

\* C26, a call that returned the answer handled while it waited
C26_ReturnedWitness ==
    \E k \in Requests :
        /\ wHandledAt[k] = "waiting"
        /\ wOutcome[k] = [how |-> "returned", kind |-> "step", obs |-> k]

(***************************************************************************)
(* lunabotics_env.py: the orb bookkeeping and the episode flags of step()  *)
(* and reset(), checked under SpecEnv                                      *)
(***************************************************************************)
OrbIds(os) == {os[i].id : i \in 1..Len(os)}

\* three orbs lying where the orb of OrbHeld lies, all in reach of its rover
OrbsInReach == [i \in 1..3 |-> Orb(i, 2000, 6000, ORB_RADIUS)]

\* _grab_orbs with max_orbs_held below the number of orbs in reach: it takes
\* the first max_orbs_held orbs of the list and marks exactly those
GrabStopsAtMax ==
    \A max_orbs_held \in 0..3 :
        LET got == _grab_orbsUpTo(OrbsInReach, <<>>, OrbHeld.body, 1, max_orbs_held)
        IN  /\ got.held = [i \in 1..max_orbs_held |-> i]
            /\ \A i \in 1..3 : got.orbs[i].is_picked_up <=> i <= max_orbs_held

\* C27: after reset() and any steps, orbs_deposited + len(orbs) is num_orbs,
\* every held orb is in the orb list, an orb of the list is marked picked up
\* exactly when it is held, at most max_orbs_held orbs are held, and no
\* step() lowers orbs_deposited.
C27_OrbBooks ==
    /\ [](/\ orbs_deposited + Len(orbs) = num_orbs
          /\ IdsOf(orbs_held) \subseteq OrbIds(orbs)
          /\ \A i \in 1..Len(orbs) : orbs[i].is_picked_up <=> orbs[i].id \in IdsOf(orbs_held)
          /\ Cardinality(IdsOf(orbs_held)) = Len(orbs_held)
          /\ Len(orbs_held) <= MAX_ORBS_HELD
          /\ GrabStopsAtMax)
    /\ [][steps' # 0 => orbs_deposited' >= orbs_deposited]_vars

\* C27 witness: the held orb has been deposited in the target berm and has
\* left the orb list
C27_Witness ==
    /\ steps = OrbCarried.steps + 1
    /\ trace.n = 1
    /\ current_zone = "TARGET_BERM"
    /\ orbs_deposited = 1
    /\ Len(orbs) = num_orbs - 1
    /\ orbs_held = <<>>

\* C27, the grab: the orb ahead of the rover is held and marked
C27_GrabWitness ==
    /\ steps = OrbAhead.steps + 1
    /\ trace.n = 1
    /\ orbs_held = <<1>>
    /\ orbs[1].is_picked_up
    /\ orbs_deposited = 0

\* C27, the release: the held orb is in the list, neither held nor marked
C27_ReleaseWitness ==
    /\ steps = OrbHeld.steps + 1
    /\ trace.n = 1
    /\ orbs_held = <<>>
    /\ Len(orbs) = num_orbs
    /\ ~orbs[1].is_picked_up
    /\ orbs[1].x # 2000

\* C28: step() returns terminated exactly when orbs_deposited >= num_orbs and
\* truncated exactly when the counter has reached MAX_EPISODE_STEPS; the
\* counter goes up by one per step() and reset() zeroes it, so the counter
\* never stands at MAX_EPISODE_STEPS or beyond without truncated reported.
C28_EpisodeFlags ==
    /\ [][steps' # 0 => /\ steps' = steps + 1
                        /\ terminated' = (orbs_deposited' >= num_orbs)
                        /\ truncated' = (steps' >= MAX_EPISODE_STEPS)]_vars
    /\ [][trace'.n = 0 => steps' = 0]_vars
    /\ [](steps >= MAX_EPISODE_STEPS => truncated)
    /\ [](truncated => steps >= MAX_EPISODE_STEPS)

\* C28 witness: the step that takes the counter to MAX_EPISODE_STEPS reports
\* truncated and, with nothing deposited, not terminated
C28_Witness ==
    /\ steps = MAX_EPISODE_STEPS
    /\ trace.n = 1
    /\ truncated
    /\ ~terminated
    /\ orbs_deposited = 0

\* C28, a step below the limit: neither flag
C28_RunningWitness ==
    /\ steps = OrbAhead.steps + 2
    /\ ~truncated
    /\ ~terminated

\* C28, the deposit: terminated is reported when the deposits reach num_orbs
C28_DepositWitness ==
    /\ steps = OrbCarried.steps + 1
    /\ orbs_deposited > 0
    /\ terminated = (orbs_deposited >= num_orbs)
    /\ ~truncated

(***************************************************************************)
(* The world a reset leaves: reset_arena of environment.py and main.py     *)
(* under SpecSim, LunaboticsEnv.reset under SpecEnv                        *)
(***************************************************************************)
\* reset_arena has returned: every obstacle is placed and the rover is the
\* new Rover(canvas), which no update() has moved yet
AfterResetArena == toPlace = <<>> /\ updates = 0 /\ rover = Rover

\* C29: right after a reset the rover's rectangle at its starting pose
\* overlaps no obstacle circle and not the column.
C29_StartClear == AfterResetArena => ~SimCollision(rover, obstacles)

\* C29 witness: reset_arena of main.py has returned with its first boulder on
\* the rover's starting pose and its later obstacles clear of it
C29_Witness ==
    /\ AfterResetArena
    /\ driver = "main"
    /\ Len(obstacles) >= 2
    /\ collides(rover, obstacles[1])
    /\ collides(obstacles[1], start_zone)
    /\ \A i \in 2..Len(obstacles) : ~collides(rover, obstacles[i])

\* C29 for environment.py: its reset_arena leaves the rover clear
C29_EnvironmentClear ==
    (AfterResetArena /\ driver = "environment") => ~SimCollision(rover, obstacles)

\* C29, a reset_arena of environment.py that has returned
C29_EnvironmentWitness ==
    /\ AfterResetArena
    /\ driver = "environment"
    /\ Len(obstacles) >= 2

\* C29, the column: the starting pose is clear of it in both programs
C29_ColumnClear == AfterResetArena => ~collides(rover, column)

\* C29 for LunaboticsEnv.reset: the rover at (1.0, 4.0) touches no rock and
\* no crater
C29_EnvClear ==
    (steps = 0 /\ trace.n = 0) =>
        /\ get_circle_collisions(body, rocks \o craters) = {}
        /\ ~previous_state.collided_with_obstacle

(***************************************************************************)
(* shapes.py: the per-axis speed limit of PhysicsObject.force, checked     *)
(* under SpecRect                                                          *)
(***************************************************************************)
\* the velocity component a force() call reaches before the limit is applied
Pushed(v, mag, part, mass) == v + RDiv(mag * part, TrigScale * mass)

\* what the claim says of one component: kept within the limit, set to the
\* limit with its sign otherwise
Within20(u) == IF u > 20 THEN 20 ELSE IF u < -20 THEN -20 ELSE u

\* C30: after any calls each velocity component is within [-20, 20]; a
\* force() call that pushes a component beyond the limit leaves it at exactly
\* 20 in magnitude with its sign, and leaves the other component at the
\* value the push gave it.
C30_ForceLimit ==
    /\ [](Abs(theRect.vx) <= 20 /\ Abs(theRect.vy) <= 20)
    /\ [][(rectOps' # rectOps /\ rectLast'.op = "force") =>
             \E f \in RectForces :
                 /\ theRect'.vx = Within20(Pushed(theRect.vx, f[1], Cos(f[2]), theRect.mass))
                 /\ theRect'.vy = Within20(Pushed(theRect.vy, f[1], Sin(f[2]), theRect.mass))]_vars
    /\ [][(rectOps' # rectOps /\ rectLast'.op \notin {"force", "update"}) =>
             (theRect'.vx = theRect.vx /\ theRect'.vy = theRect.vy)]_vars

\* C30 witness: a force of 2400 at 30 degrees on the rover at rest pushes vx
\* to 26 and vy to 15; vx is left at 20 and vy at 15
C30_Witness ==
    /\ rectLast.op = "force"
    /\ rectLast.before.vx = 0 /\ rectLast.before.vy = 0
    /\ theRect.vx = 20
    /\ theRect.vy = 15

\* C30, the sign: a force of 2400 at 180 degrees after one of 800 at 90
\* degrees pushes vx to -30; vx is left at -20 and vy stays 10
C30_NegativeWitness ==
    /\ rectLast.op = "force"
    /\ rectLast.before.vx = 0 /\ rectLast.before.vy = 10
    /\ theRect.vx = -20
    /\ theRect.vy = 10

\* C30, repeated forces: both components at the limit
C30_BothWitness ==
    /\ rectOps >= 3
    /\ theRect.vx = 20
    /\ theRect.vy = 20

====
